---- MODULE Spec2Model ----
(***************************************************************************)
(* The read-only query filter of the two "data chat" dashboards and of the *)
(* ThreadSafeDatabase manager, together with the database step it guards.  *)
(*                                                                         *)
(* A Python str is modelled as a sequence of one-character strings, so     *)
(* that strip(), lower(), upper(), startswith() and the `in` substring     *)
(* test are computed character by character, as the interpreter does.      *)
(***************************************************************************)
EXTENDS Integers, Sequences, FiniteSets, TLC

(***************************************************************************)
(* Bounds of the model.                                                    *)
(***************************************************************************)
\* Longest generated query, counted in pieces of Vocabulary.
MaxChunks == 2
\* Statements handed to the database engine in one run.
MaxStatements == 2
\* Immediate repetitions of one call (same function, same query).
MaxRetries == 1
\* Threads calling at the same time.
MaxThreads == 2
\* Connections opened in one run.
MaxConnections == 4
\* Seconds the clock advances while tickets are filed.
MaxClock == 2
\* Ticket requests made in one run.
MaxFilings == 3
\* Runs of the voice-to-image script.
MaxRuns == 2
\* Words in what the user types to an agent.
MaxWords == 2
\* Times ThreadSafeDatabase() is called after the module was imported.
MaxConstructions == 4
\* with-blocks of get_cursor entered in one run.
MaxScopes == 3
\* Runs of the database initialisation on one database file.
MaxInits == 3
\* How far from 0 and from the threshold the row counts of the database
\* files found at start lie.
MaxOffset == 4
\* Tool calls dispatched in one run.
MaxToolCalls == 2
\* Entries of a chat history up to which the user goes on asking.
MaxMessages == 3

(***************************************************************************)
(* Characters and the str methods the filters use.                         *)
(***************************************************************************)
UpperCase ==
    <<"A", "B", "C", "D", "E", "F", "G", "H", "I", "J", "K", "L", "M", "N",
      "O", "P", "Q", "R", "S", "T", "U", "V", "W", "X", "Y", "Z">>

LowerCase ==
    <<"a", "b", "c", "d", "e", "f", "g", "h", "i", "j", "k", "l", "m", "n",
      "o", "p", "q", "r", "s", "t", "u", "v", "w", "x", "y", "z">>

Digits ==
    <<"0", "1", "2", "3", "4", "5", "6", "7", "8", "9">>

\* The characters str.strip() removes from both ends.
Whitespace == {" ", "\t", "\n"}

Range(s) == {s[i] : i \in 1..Len(s)}

\* The lower-case letter of each upper-case one, and the reverse.
ToLower ==
    [c \in Range(UpperCase) |->
        LowerCase[CHOOSE i \in 1..Len(UpperCase) : UpperCase[i] = c]]

ToUpper ==
    [c \in Range(LowerCase) |->
        UpperCase[CHOOSE i \in 1..Len(LowerCase) : LowerCase[i] = c]]

LowerChar(c) == IF c \in DOMAIN ToLower THEN ToLower[c] ELSE c

UpperChar(c) == IF c \in DOMAIN ToUpper THEN ToUpper[c] ELSE c

\* str.lower()
lower(s) == [i \in 1..Len(s) |-> LowerChar(s[i])]

\* str.upper()
upper(s) == [i \in 1..Len(s) |-> UpperChar(s[i])]

\* str.strip(): drop the leading and the trailing whitespace.
strip(s) ==
    LET keep == {i \in 1..Len(s) : s[i] \notin Whitespace}
    IN  IF keep = {} THEN <<>>
        ELSE SubSeq(s, CHOOSE i \in keep : \A j \in keep : i <= j,
                       CHOOSE i \in keep : \A j \in keep : j <= i)

\* A slip: receiver and argument exchanged, prefix.startswith(s).
startswith_swapped(s, prefix) ==
    /\ Len(s) <= Len(prefix)
    /\ SubSeq(prefix, 1, Len(s)) = s

\* str.startswith(prefix)
startswith(s, prefix) ==
    /\ Len(prefix) <= Len(s)
    /\ SubSeq(s, 1, Len(prefix)) = prefix

\* Python's `sub in s` on strings: sub occurs somewhere in s.
contains(s, sub) ==
    \E i \in 1..(Len(s) - Len(sub) + 1) : SubSeq(s, i, i + Len(sub) - 1) = sub

\* A slip: only the first word of the list is looked for.
any_in_first_only(ops, s) == contains(s, ops[1])

\* Python's any(op in s for op in ops), ops a list of strings.
any_in(ops, s) == \E k \in 1..Len(ops) : contains(s, ops[k])

(***************************************************************************)
(* The state: tested, the query under test; the last call and what came   *)
(* of it; the number of statements the database engine was handed so far;  *)
(* how often the last call was an immediate repetition; and the verdict    *)
(* each function gave the query under test the first time it saw it.       *)
(***************************************************************************)
VARIABLES tested, last, dbStatements, retries, firstVerdict

(***************************************************************************)
(* Threads inside the filter at the same time.  callPc is the statement    *)
(* each thread is at, callArg what its caller passed, callFrame the local  *)
(* variables of the call (query, query_lower), callVerdict the return or   *)
(* raise statement the call left by.                                       *)
(***************************************************************************)
VARIABLES callPc, callArg, callFrame, callVerdict

threadVars == <<callPc, callArg, callFrame, callVerdict>>

Threads == 1..MaxThreads

NoFrame == [query |-> <<>>, query_lower |-> <<>>]

ThreadsInit ==
    /\ callPc = [t \in Threads |-> "idle"]
    /\ callArg = [t \in Threads |-> [fn |-> "none", query |-> <<>>]]
    /\ callFrame = [t \in Threads |-> NoFrame]
    /\ callVerdict = [t \in Threads |-> "none"]

(***************************************************************************)
(* The connection handles.  Each store (the updated dashboard's module,    *)
(* the ThreadSafeDatabase object) has a threading.local(): connSlot is its *)
(* conn attribute as each thread sees it, 0 where the attribute is absent. *)
(* Connections are numbered in the order sqlite3.connect made them.        *)
(* connHeld, connPrior and lastConn record what the callers saw.           *)
(***************************************************************************)
VARIABLES connSlot, connCreated, connClosed, connHeld, connPrior, lastConn

connVars == <<connSlot, connCreated, connClosed, connHeld, connPrior, lastConn>>

Stores == {"app", "database"}

NoConnCall ==
    [op |-> "none", store |-> "none", thread |-> 0, prior |-> "none",
     created |-> FALSE, returned |-> 0, existing |-> 0]

ConnInit ==
    /\ connSlot = [st \in Stores |-> [t \in Threads |-> 0]]
    /\ connCreated = 0
    /\ connClosed = {}
    /\ connHeld = [t \in Threads |-> {}]
    /\ connPrior = [st \in Stores |-> [t \in Threads |-> "none"]]
    /\ lastConn = NoConnCall

(***************************************************************************)
(* The support tickets.  clock is datetime.now() in whole seconds,         *)
(* ticketFile the lines of support_tickets.json (first dashboard),         *)
(* ticketTable the rows of support_tickets (updated dashboard),            *)
(* show_ticket_form and messages the session state of the updated          *)
(* dashboard.  filings counts the requests and lastFiling records the      *)
(* latest.                                                                 *)
(***************************************************************************)
VARIABLES clock, ticketFile, ticketTable, show_ticket_form, messages,
          filings, lastFiling

ticketVars == <<clock, ticketFile, ticketTable, show_ticket_form, messages,
                filings, lastFiling>>

NoFiling ==
    [ui |-> "none", title |-> <<>>, description |-> <<>>,
     priority |-> "none", outcome |-> "none"]

TicketsInit ==
    /\ clock = 0
    /\ ticketFile = <<>>
    /\ ticketTable = <<>>
    /\ show_ticket_form = FALSE
    /\ messages = <<>>
    /\ filings = 0
    /\ lastFiling = NoFiling

(***************************************************************************)
(* The voice-to-image script.  voicePc is the stage the run is at,         *)
(* audio_source which of audio_bytes and audio_file is set,                *)
(* openai_api_key, transcript, image_prompt and generated_image_url the    *)
(* script's variables of those names.  externalCalls lists the remote      *)
(* calls of the current run in the order made, stageOutcome how each stage *)
(* ended, voiceRuns counts the runs.                                       *)
(***************************************************************************)
VARIABLES voicePc, audio_source, openai_api_key, transcript, image_prompt,
          generated_image_url, externalCalls, stageOutcome, voiceRuns

voiceVars == <<voicePc, audio_source, openai_api_key, transcript,
               image_prompt, generated_image_url, externalCalls,
               stageOutcome, voiceRuns>>

Stages == {"transcription", "completion", "image"}

NoOutcomes == [g \in Stages |-> "skipped"]

VoiceInit ==
    /\ voicePc = "idle"
    /\ audio_source = "none"
    /\ openai_api_key = ""
    /\ transcript = ""
    /\ image_prompt = ""
    /\ generated_image_url = ""
    /\ externalCalls = <<>>
    /\ stageOutcome = NoOutcomes
    /\ voiceRuns = 0

(***************************************************************************)
(* The keyword agents.  agentPhase says whether the user has typed,        *)
(* agentInput is what was typed, agentLast the agent function that         *)
(* answered and what came of it.                                           *)
(***************************************************************************)
VARIABLES agentPhase, agentInput, agentLast

agentVars == <<agentPhase, agentInput, agentLast>>

NoAnswer ==
    [fn |-> "none", ran |-> <<>>, outcome |-> "none", value |-> "none",
     use_api |-> FALSE, api |-> "none", apiCalls |-> 0, demoCalls |-> 0]

AgentInit ==
    /\ agentPhase = "idle"
    /\ agentInput = <<>>
    /\ agentLast = NoAnswer

(***************************************************************************)
(* The ThreadSafeDatabase class object.  moduleImported: database.py has   *)
(* run to its end; instance: cls._instance (0 for None); instancesMade the *)
(* objects super().__new__ has made; initialized the objects that have the *)
(* attribute of that name; initRuns the runs of _init_database;            *)
(* ctorPc and ctorSelf the statement and the object of each thread's       *)
(* constructor call; constructions the calls made after the import.        *)
(***************************************************************************)
VARIABLES moduleImported, instance, instancesMade, initialized, initRuns,
          ctorPc, ctorSelf, constructions

singletonVars == <<moduleImported, instance, instancesMade, initialized,
                   initRuns, ctorPc, ctorSelf, constructions>>

SingletonInit ==
    /\ moduleImported = FALSE
    /\ instance = 0
    /\ instancesMade = 0
    /\ initialized = {}
    /\ initRuns = 0
    /\ ctorPc = [t \in Threads |-> "idle"]
    /\ ctorSelf = [t \in Threads |-> 0]
    /\ constructions = 0

(***************************************************************************)
(* ThreadSafeDatabase.get_cursor on one thread's connection.  scopePc is   *)
(* the place inside the context manager, scope what the current (or last)  *)
(* with-block did, txPending the statements written and neither committed  *)
(* nor rolled back, txCommitted the statements committed, scopes the       *)
(* with-blocks entered.                                                    *)
(***************************************************************************)
VARIABLES scopePc, scope, txPending, txCommitted, scopes

cursorVars == <<scopePc, scope, txPending, txCommitted, scopes>>

NoScope ==
    [body |-> "none", wrote |-> 0, commits |-> 0, rollbacks |-> 0,
     closes |-> 0, raised |-> "none"]

CursorInit ==
    /\ scopePc = "outside"
    /\ scope = NoScope
    /\ txPending = 0
    /\ txCommitted = 0
    /\ scopes = 0

(***************************************************************************)
(* The seeding of the sales table.  dbFile: whether business_data.db has   *)
(* been found (with some rows, or none); salesRows the rows of sales;      *)
(* initPc and initCount the place in init_database / _init_database and    *)
(* the count it read; inits the runs, lastInit what the last run did.      *)
(***************************************************************************)
VARIABLES dbFile, salesRows, initPc, initCount, inits, lastInit

seedVars == <<dbFile, salesRows, initPc, initCount, inits, lastInit>>

NoInitRun == [fn |-> "none", before |-> 0, inserted |-> 0, nth |-> 0]

SeedInit ==
    /\ dbFile = "unopened"
    /\ salesRows = 0
    /\ initPc = "idle"
    /\ initCount = 0
    /\ inits = 0
    /\ lastInit = NoInitRun

(***************************************************************************)
(* The tool dispatch.  toolLast is the latest dispatch and what came of    *)
(* it, toolCalls the dispatches so far.                                    *)
(***************************************************************************)
VARIABLES toolLast, toolCalls

toolVars == <<toolLast, toolCalls>>

NoDispatch ==
    [fn |-> "none", tool |-> "none", arguments |-> "none",
     outcome |-> "none", success |-> FALSE, error |-> "none",
     dbTouched |-> FALSE]

ToolsInit ==
    /\ toolLast = NoDispatch
    /\ toolCalls = 0

(***************************************************************************)
(* The chat history of the first dashboard (that of the updated dashboard  *)
(* is messages, above).                                                    *)
(***************************************************************************)
VARIABLES dataAppMessages

chatVars == <<dataAppMessages>>

\* The first dashboard's history starts with the welcome message.
ChatInit == dataAppMessages = <<[role |-> "assistant", content |-> "welcome"]>>

\* The state outside the filter calls, and where it starts.
restVars == <<threadVars, connVars, ticketVars, voiceVars, agentVars,
             singletonVars, cursorVars, seedVars, toolVars, chatVars>>

RestInit ==
    ThreadsInit /\ ConnInit /\ TicketsInit /\ VoiceInit /\ AgentInit /\
    SingletonInit /\ CursorInit /\ SeedInit /\ ToolsInit /\ ChatInit

(***************************************************************************)
(* The constants of the three copies of the filter.                        *)
(***************************************************************************)
\* A change of the list: replace is blocked too.
dangerous_with_replace ==
    <<<<"d", "r", "o", "p">>,
      <<"d", "e", "l", "e", "t", "e">>,
      <<"t", "r", "u", "n", "c", "a", "t", "e">>,
      <<"a", "l", "t", "e", "r">>,
      <<"u", "p", "d", "a", "t", "e">>,
      <<"i", "n", "s", "e", "r", "t">>,
      <<"r", "e", "p", "l", "a", "c", "e">>>>

\* app.py (updated dashboard): dangerous = [...]
dangerous ==
    <<<<"d", "r", "o", "p">>,
      <<"d", "e", "l", "e", "t", "e">>,
      <<"t", "r", "u", "n", "c", "a", "t", "e">>,
      <<"a", "l", "t", "e", "r">>,
      <<"u", "p", "d", "a", "t", "e">>,
      <<"i", "n", "s", "e", "r", "t">>>>

\* database.py: dangerous_operations = [...]
dangerous_operations ==
    <<<<"d", "r", "o", "p">>,
      <<"d", "e", "l", "e", "t", "e">>,
      <<"t", "r", "u", "n", "c", "a", "t", "e">>,
      <<"a", "l", "t", "e", "r">>,
      <<"u", "p", "d", "a", "t", "e">>,
      <<"i", "n", "s", "e", "r", "t">>>>

\* data_app/app.py: the keywords looked for in query.upper()
data_app_keywords ==
    <<<<"D", "E", "L", "E", "T", "E">>,
      <<"D", "R", "O", "P">>,
      <<"I", "N", "S", "E", "R", "T">>,
      <<"U", "P", "D", "A", "T", "E">>,
      <<"A", "L", "T", "E", "R">>>>

\* The prefix both newer copies require of the stripped, lower-cased query.
select ==
    <<"s", "e", "l", "e", "c", "t">>

\* app.py (updated dashboard), the two rejection messages.
BlockedMessage ==
    <<"T", "h", "i", "s", " ", "o", "p", "e", "r", "a", "t", "i", "o", "n",
      " ", "i", "s", " ", "b", "l", "o", "c", "k", "e", "d", " ", "f", "o",
      "r", " ", "s", "a", "f", "e", "t", "y", ".">>


OnlySelectMessage ==
    <<"O", "n", "l", "y", " ", "S", "E", "L", "E", "C", "T", " ", "q", "u",
      "e", "r", "i", "e", "s", " ", "a", "r", "e", " ", "a", "l", "l", "o",
      "w", "e", "d", ".">>

\* database.py, the two PermissionError messages.
NotAllowedMessage ==
    <<"T", "h", "i", "s", " ", "o", "p", "e", "r", "a", "t", "i", "o", "n",
      " ", "i", "s", " ", "n", "o", "t", " ", "a", "l", "l", "o", "w", "e",
      "d", " ", "f", "o", "r", " ", "s", "a", "f", "e", "t", "y", " ", "r",
      "e", "a", "s", "o", "n", "s", ".">>


OnlySelectSafetyMessage ==
    <<"O", "n", "l", "y", " ", "S", "E", "L", "E", "C", "T", " ", "q", "u",
      "e", "r", "i", "e", "s", " ", "a", "r", "e", " ", "a", "l", "l", "o",
      "w", "e", "d", " ", "f", "o", "r", " ", "d", "a", "t", "a", " ", "s",
      "a", "f", "e", "t", "y", ".">>

\* data_app/app.py, its one rejection message; it opens with a cross-mark
\* emoji, written here as one character.
SafetyViolationMessage ==
    <<"<U+274C>">> \o
    <<" ", "S", "a", "f", "e", "t", "y", " ", "V", "i", "o", "l", "a", "t",
      "i", "o", "n", ":", " ", "O", "n", "l", "y", " ", "S", "E", "L", "E",
      "C", "T", " ", "q", "u", "e", "r", "i", "e", "s", " ", "a", "r", "e",
      " ", "a", "l", "l", "o", "w", "e", "d", "!">>

\* data_app/app.py: f"Query error: {str(e)}"
QueryErrorPrefix ==
    <<"Q", "u", "e", "r", "y", " ", "e", "r", "r", "o", "r", ":", " ">>

\* str(e) of an exception raised by the database driver: the code passes the
\* text on unread, so one character stands for whatever the driver wrote.
DriverErrorText == <<"<str(e)>">>

\* The value None where the code returns or leaves out an error text.
NoText == <<>>
(***************************************************************************)
(* What one call of a filter function comes to.  path names the return or  *)
(* raise statement the call left by; handed is the list of statements the  *)
(* call passed to the database engine (none, or the one query).            *)
(***************************************************************************)
Returned(path, success, error, handed) ==
    [path |-> path, outcome |-> "returned", exception |-> "none",
     success |-> success, error |-> error, handed |-> handed]

Raised(path, exception, error) ==
    [path |-> path, outcome |-> "raised", exception |-> exception,
     success |-> FALSE, error |-> error, handed |-> <<>>]

(***************************************************************************)
(* Capstone 1 updated: app.py, execute_safe_query(query).                  *)
(***************************************************************************)
\* A slip: the copy is stripped but not lower-cased.
app_query_lower_case_kept(query) == strip(query)

\* query_lower = query.strip().lower()
app_query_lower(query) == lower(strip(query))

\* any(op in query_lower for op in dangerous)
app_is_dangerous(query) == any_in(dangerous, app_query_lower(query))

\* query_lower.startswith('select')
app_is_select(query) == startswith(app_query_lower(query), select)

\* A slip: the leading-keyword test has no return, so control falls through
\* to the read.
execute_safe_query_falls_through(query, dbOk) ==
    IF app_is_dangerous(query)
    THEN Returned("blocked", FALSE, BlockedMessage, <<>>)
    ELSE IF dbOk
    THEN Returned("executed", TRUE, NoText, <<query>>)
    ELSE Returned("executed", FALSE, DriverErrorText, <<query>>)

\* A slip: the two tests in the other order.
execute_safe_query_select_first(query, dbOk) ==
    IF ~app_is_select(query)
    THEN Returned("not_select", FALSE, OnlySelectMessage, <<>>)
    ELSE IF app_is_dangerous(query)
    THEN Returned("blocked", FALSE, BlockedMessage, <<>>)
    ELSE IF dbOk
    THEN Returned("executed", TRUE, NoText, <<query>>)
    ELSE Returned("executed", FALSE, DriverErrorText, <<query>>)

\* A slip: the filter consults shared state, refusing every query once the
\* engine has run a statement.
execute_safe_query_stateful(query, dbOk) ==
    IF app_is_dangerous(query) \/ dbStatements > 0
    THEN Returned("blocked", FALSE, BlockedMessage, <<>>)
    ELSE IF ~app_is_select(query)
    THEN Returned("not_select", FALSE, OnlySelectMessage, <<>>)
    ELSE IF dbOk
    THEN Returned("executed", TRUE, NoText, <<query>>)
    ELSE Returned("executed", FALSE, DriverErrorText, <<query>>)

\* dbOk: whether pd.read_sql_query(query, conn) returned a frame (TRUE) or
\* raised (FALSE); the except clause turns the exception into a result.
execute_safe_query(query, dbOk) ==
    IF app_is_dangerous(query)
    THEN Returned("blocked", FALSE, BlockedMessage, <<>>)
    ELSE IF ~app_is_select(query)
    THEN Returned("not_select", FALSE, OnlySelectMessage, <<>>)
    ELSE IF dbOk
    THEN Returned("executed", TRUE, NoText, <<query>>)
    ELSE Returned("executed", FALSE, DriverErrorText, <<query>>)

(***************************************************************************)
(* Capstone 1 updated: database.py, ThreadSafeDatabase.execute_query.      *)
(***************************************************************************)
db_query_lower(query) == lower(strip(query))

db_is_dangerous(query) == any_in(dangerous_operations, db_query_lower(query))

db_is_select(query) == startswith(db_query_lower(query), select)

\* A slip: the second rejection raises another exception type.
execute_query_value_error(query, dbOk) ==
    IF db_is_dangerous(query)
    THEN Raised("blocked", "PermissionError", NotAllowedMessage)
    ELSE IF ~db_is_select(query)
    THEN Raised("not_select", "ValueError", OnlySelectSafetyMessage)
    ELSE IF dbOk
    THEN Returned("executed", TRUE, NoText, <<query>>)
    ELSE Returned("executed", FALSE, DriverErrorText, <<query>>)

\* dbOk: whether cursor.execute / fetchall inside the with-block succeeded.
execute_query(query, dbOk) ==
    IF db_is_dangerous(query)
    THEN Raised("blocked", "PermissionError", NotAllowedMessage)
    ELSE IF ~db_is_select(query)
    THEN Raised("not_select", "PermissionError", OnlySelectSafetyMessage)
    ELSE IF dbOk
    THEN Returned("executed", TRUE, NoText, <<query>>)
    ELSE Returned("executed", FALSE, DriverErrorText, <<query>>)

(***************************************************************************)
(* Capstone 1 data_app: app.py, execute_safe_query(query, params=None).    *)
(* It returns the pair (df, error); success stands for df is not None.     *)
(***************************************************************************)
data_app_is_dangerous(query) == any_in(data_app_keywords, upper(query))

data_app_execute_safe_query(query, dbOk) ==
    IF data_app_is_dangerous(query)
    THEN Returned("blocked", FALSE, SafetyViolationMessage, <<>>)
    ELSE IF dbOk
    THEN Returned("executed", TRUE, NoText, <<query>>)
    ELSE Returned("executed", FALSE, QueryErrorPrefix \o DriverErrorText,
                  <<query>>)

(***************************************************************************)
(* The inputs.                                                             *)
(***************************************************************************)
\* The pieces generated queries are put together from.
KwSelect ==
    <<"S", "e", "l", "e", "c", "t">>

KwUpdate ==
    <<"u", "p", "d", "a", "t", "e">>

IdentTail ==
    <<"d", "_", "a", "t">>

Vocabulary == {KwSelect, KwUpdate, IdentTail, <<" ">>, <<";">>}

RECURSIVE Pieces(_)
Pieces(n) ==
    IF n = 0 THEN {<<>>}
    ELSE LET shorter == Pieces(n - 1)
         IN  shorter \cup {s \o v : s \in shorter, v \in Vocabulary}

\* The queries the specification's examples use.
QSelectAll ==
    <<"S", "E", "L", "E", "C", "T", " ", "*", " ", "F", "R", "O", "M", " ",
      "s", "a", "l", "e", "s">>

QDropTable ==
    <<"D", "R", "O", "P", " ", "T", "A", "B", "L", "E", " ", "s", "a", "l",
      "e", "s">>

QUpdatedAt ==
    <<"S", "E", "L", "E", "C", "T", " ", "u", "p", "d", "a", "t", "e", "d",
      "_", "a", "t", " ", "F", "R", "O", "M", " ", "s", "a", "l", "e", "s">>

QSelectThenDrop ==
    <<"S", "E", "L", "E", "C", "T", " ", "1", ";", " ", "D", "R", "O", "P",
      " ", "T", "A", "B", "L", "E", " ", "s", "a", "l", "e", "s">>

QReport ==
    <<"s", "a", "l", "e", "s", " ", "r", "e", "p", "o", "r", "t", " ", "p",
      "l", "e", "a", "s", "e">>

QTwoSelects ==
    <<"S", "E", "L", "E", "C", "T", " ", "1", ";", " ", "S", "E", "L", "E",
      "C", "T", " ", "2">>

QBlank ==
    <<" ", "\t", "\n", " ">>

QReplace ==
    <<"S", "E", "L", "E", "C", "T", " ", "r", "e", "p", "l", "a", "c", "e",
      "(", "n", "a", "m", "e", ",", "'", "a", "'", ",", "'", "b", "'", ")",
      " ", "F", "R", "O", "M", " ", "c", "u", "s", "t", "o", "m", "e", "r",
      "s">>

QCreateTable ==
    <<"C", "R", "E", "A", "T", "E", " ", "T", "A", "B", "L", "E", " ", "t",
      " ", "(", "x", ")">>

Examples ==
    {QSelectAll, QDropTable, QUpdatedAt, QSelectThenDrop, QReport,
     QTwoSelects, QBlank, QReplace, QCreateTable}

\* The query under test is any of these.
Queries == Pieces(MaxChunks) \cup Examples

\* The queries of the calls that run in between.
OtherQueries == {QDropTable}
(***************************************************************************)
(* The calls.                                                              *)
(***************************************************************************)
vars == <<tested, last, dbStatements, retries, firstVerdict>>

Functions == {"data_app_execute_safe_query", "execute_safe_query", "execute_query"}

NoCall ==
    [fn |-> "none", query |-> <<>>, path |-> "none", outcome |-> "none",
     exception |-> "none", success |-> FALSE, error |-> NoText,
     handed |-> <<>>]

Verdict(r) == IF r.path = "executed" THEN "accepted" ELSE "rejected"

Init ==
    /\ tested \in Queries
    /\ last = NoCall
    /\ dbStatements = 0
    /\ retries = 0
    /\ firstVerdict = [fn \in Functions |-> "none"]
    /\ RestInit

\* Everything at its start, the filter with no query under test.
IdleInit ==
    /\ tested = <<>>
    /\ last = NoCall
    /\ dbStatements = 0
    /\ retries = 0
    /\ firstVerdict = [fn \in Functions |-> "none"]
    /\ RestInit

\* One call of fn on q that came to r: the database engine runs the
\* statements the call handed to it, and the caller has r.
Call(fn, q, r) ==
    /\ (last.fn = fn /\ last.query = q) => retries < MaxRetries
    /\ r.handed # <<>> => dbStatements < MaxStatements
    /\ last' = [fn |-> fn, query |-> q, path |-> r.path,
                outcome |-> r.outcome, exception |-> r.exception,
                success |-> r.success, error |-> r.error,
                handed |-> r.handed]
    /\ dbStatements' = dbStatements + Len(r.handed)
    /\ retries' = IF last.fn = fn /\ last.query = q THEN retries + 1 ELSE 0
    /\ firstVerdict' =
         IF q = tested /\ firstVerdict[fn] = "none"
         THEN [firstVerdict EXCEPT ![fn] = Verdict(r)]
         ELSE firstVerdict
    /\ UNCHANGED tested
    /\ UNCHANGED restVars

CallExecuteSafeQuery ==
    \E q \in {tested} \cup OtherQueries, dbOk \in BOOLEAN :
        Call("execute_safe_query", q, execute_safe_query(q, dbOk))

CallExecuteQuery ==
    \E q \in {tested} \cup OtherQueries, dbOk \in BOOLEAN :
        Call("execute_query", q, execute_query(q, dbOk))

CallDataAppExecuteSafeQuery ==
    \E q \in {tested} \cup OtherQueries, dbOk \in BOOLEAN :
        Call("data_app_execute_safe_query", q,
             data_app_execute_safe_query(q, dbOk))

Next ==
    \/ CallExecuteSafeQuery
    \/ CallExecuteQuery
    \/ CallDataAppExecuteSafeQuery

Spec == Init /\ [][Next]_vars

(***************************************************************************)
(* The vocabulary of the claims: tokens, the forbidden keywords, the       *)
(* statement separator.                                                    *)
(***************************************************************************)
WordChars == Range(UpperCase) \cup Range(LowerCase) \cup Range(Digits) \cup {"_"}

\* The places a token (a maximal run of word characters) starts at.
TokenStarts(s) ==
    {i \in 1..Len(s) : s[i] \in WordChars /\ (i = 1 \/ s[i - 1] \notin WordChars)}

\* The place the token starting at i ends at.
TokenEnd(s, i) ==
    CHOOSE j \in i..Len(s) :
        /\ \A k \in i..j : s[k] \in WordChars
        /\ (j = Len(s) \/ s[j + 1] \notin WordChars)

\* The tokens of s, lower-cased.
Tokens(s) == {SubSeq(lower(s), i, TokenEnd(s, i)) : i \in TokenStarts(s)}

\* The first token of s, lower-cased; the empty string when s has none.
FirstToken(s) ==
    IF TokenStarts(s) = {} THEN <<>>
    ELSE LET i == CHOOSE a \in TokenStarts(s) : \A b \in TokenStarts(s) : a <= b
         IN  SubSeq(lower(s), i, TokenEnd(s, i))

\* The six keywords the claims name.
ForbiddenKeywords ==
    {<<"d", "r", "o", "p">>,
     <<"d", "e", "l", "e", "t", "e">>,
     <<"t", "r", "u", "n", "c", "a", "t", "e">>,
     <<"a", "l", "t", "e", "r">>,
     <<"u", "p", "d", "a", "t", "e">>,
     <<"i", "n", "s", "e", "r", "t">>}

ForbiddenTokens(s) == Tokens(s) \cap ForbiddenKeywords

\* A forbidden keyword occurs in s, as a token or inside one.
HasForbiddenSubstring(s) == \E kw \in ForbiddenKeywords : contains(lower(s), kw)

\* A ';' followed by further non-whitespace content.
MultiStatement(s) ==
    \E i \in 1..Len(s) :
        s[i] = ";" /\ \E j \in (i + 1)..Len(s) : s[j] \notin Whitespace

\* The two copies of the updated dashboard.
Updated == {"execute_safe_query", "execute_query"}

\* fn's own tests turn q down.
Rejects(fn, q) ==
    CASE fn = "execute_safe_query" -> app_is_dangerous(q) \/ ~app_is_select(q)
      [] fn = "execute_query" -> db_is_dangerous(q) \/ ~db_is_select(q)
      [] fn = "data_app_execute_safe_query" -> data_app_is_dangerous(q)
      [] OTHER -> FALSE

\* The text of fn's rejection for a dangerous operation, and for a query
\* that does not start with select.
DangerousText(fn) ==
    IF fn = "execute_safe_query" THEN BlockedMessage ELSE NotAllowedMessage

NotSelectText(fn) ==
    IF fn = "execute_safe_query" THEN OnlySelectMessage
    ELSE OnlySelectSafetyMessage

(***************************************************************************)
(* C1.  A query the filter rejects is never passed to the database: in     *)
(* every call whose query the called function's tests turn down, also a    *)
(* repeated one, the call hands the engine nothing and the count of        *)
(* statements the engine has run stays what it was.                        *)
(***************************************************************************)
C1_RejectedNeverReachesDatabase ==
    [][Rejects(last'.fn, last'.query) =>
          /\ last'.handed = <<>>
          /\ last'.success = FALSE
          /\ dbStatements' = dbStatements]_vars

\* A rejected query retried at once, after the engine has run a statement.
C1_Witness ==
    /\ last.fn \in Functions
    /\ last.path \in {"blocked", "not_select"}
    /\ retries >= 1
    /\ dbStatements >= 1

(***************************************************************************)
(* C2.  As claimed: a query with a token equal to a forbidden keyword      *)
(* (case-insensitively) is rejected with the forbidden-keyword outcome,    *)
(* and the outcome names that token.                                       *)
(***************************************************************************)
C2_ForbiddenTokenNamed ==
    (last.fn \in Updated /\ ForbiddenTokens(last.query) # {}) =>
        /\ last.path = "blocked"
        /\ \E t \in ForbiddenTokens(last.query) : contains(lower(last.error), t)

(***************************************************************************)
(* C2, amended.  A query with a token equal to a forbidden keyword         *)
(* (case-insensitively) is rejected with the forbidden-keyword outcome,    *)
(* nothing is handed to the database, and the outcome carries the          *)
(* function's one fixed text, which names no token.                        *)
(***************************************************************************)
C2_ForbiddenTokenBlocked ==
    (last.fn \in Updated /\ ForbiddenTokens(last.query) # {}) =>
        /\ last.path = "blocked"
        /\ last.success = FALSE
        /\ last.handed = <<>>
        /\ last.error = DangerousText(last.fn)
        /\ \A kw \in ForbiddenKeywords : ~contains(lower(last.error), kw)

\* "DROP TABLE sales" turned down by the updated dashboard.
C2_Witness ==
    /\ last.fn = "execute_safe_query"
    /\ last.query = QDropTable
    /\ <<"d", "r", "o", "p">> \in ForbiddenTokens(last.query)
    /\ last.path = "blocked"

(***************************************************************************)
(* C3.  A query that holds a forbidden word only inside a longer           *)
(* identifier (and is a single select statement otherwise) is not          *)
(* rejected: it is allowed.                                                *)
(***************************************************************************)
C3_SubstringInIdentifierAllowed ==
    ( /\ last.fn \in Functions
      /\ HasForbiddenSubstring(last.query)
      /\ ForbiddenTokens(last.query) = {}
      /\ FirstToken(last.query) = select
      /\ ~MultiStatement(last.query) ) =>
        last.path = "executed"

(***************************************************************************)
(* C4.  A query with no forbidden keyword whose first token is not select  *)
(* is rejected with the not-read-only outcome.                             *)
(***************************************************************************)
C4_NotSelectRejected ==
    ( /\ last.fn \in Updated
      /\ ForbiddenTokens(last.query) = {}
      /\ FirstToken(last.query) # select ) =>
        last.path = "not_select"

(***************************************************************************)
(* C5.  A query with a ';' followed by further non-whitespace content is   *)
(* rejected, never allowed.                                                *)
(***************************************************************************)
C5_MultiStatementRejected ==
    (last.fn \in Updated /\ MultiStatement(last.query)) =>
        /\ last.path # "executed"
        /\ last.handed = <<>>

(***************************************************************************)
(* C6.  As claimed: the empty string and every whitespace-only string are  *)
(* rejected with an outcome of their own, not the not-read-only one nor    *)
(* any other.                                                              *)
(***************************************************************************)
C6_EmptyHasOwnOutcome ==
    (last.fn \in Updated /\ strip(last.query) = <<>>) =>
        /\ last.path \notin {"executed", "not_select", "blocked"}
        /\ last.error \notin {NotSelectText(last.fn), DangerousText(last.fn)}

(***************************************************************************)
(* C6, amended.  The empty string and every whitespace-only string are     *)
(* rejected, with the not-read-only outcome ("Only SELECT queries are      *)
(* allowed"), and nothing is handed to the database.                       *)
(***************************************************************************)
C6_EmptyRejectedAsNotSelect ==
    (last.fn \in Updated /\ strip(last.query) = <<>>) =>
        /\ last.path = "not_select"
        /\ last.success = FALSE
        /\ last.error = NotSelectText(last.fn)
        /\ last.handed = <<>>

\* A whitespace-only query (blanks, a tab, a newline) turned down.
C6_Witness ==
    /\ last.fn \in Updated
    /\ last.query = QBlank
    /\ last.path = "not_select"

(***************************************************************************)
(* C7.  A non-empty query whose first token is select, with no forbidden   *)
(* token and no ';' followed by more content, is allowed, and the text     *)
(* handed on for execution is the caller's string, character for           *)
(* character.                                                              *)
(***************************************************************************)
C7_ReadOnlyQueryPassedUnchanged ==
    ( /\ last.fn \in Updated
      /\ last.query # <<>>
      /\ FirstToken(last.query) = select
      /\ ForbiddenTokens(last.query) = {}
      /\ ~MultiStatement(last.query) ) =>
        /\ last.path = "executed"
        /\ last.handed = <<last.query>>

(***************************************************************************)
(* C8.  The forbidden-keyword test comes first: a query with a forbidden   *)
(* token that also breaks the leading-keyword rule or the one-statement    *)
(* rule is reported with the forbidden-keyword outcome, never with the     *)
(* not-read-only one.                                                      *)
(***************************************************************************)
C8_ForbiddenKeywordReportedFirst ==
    ( /\ last.fn \in Updated
      /\ ForbiddenTokens(last.query) # {}
      /\ (FirstToken(last.query) # select \/ MultiStatement(last.query)) ) =>
        /\ last.path = "blocked"
        /\ last.error # NotSelectText(last.fn)

\* "DROP TABLE sales": a forbidden token, and no leading select.
C8_Witness ==
    /\ last.fn \in Updated
    /\ last.query = QDropTable
    /\ ~app_is_select(last.query)
    /\ last.path = "blocked"

(***************************************************************************)
(* C9.  As claimed: the filter never raises; every rejection is a returned *)
(* value.                                                                  *)
(***************************************************************************)
C9_NeverRaises ==
    last.fn \in Updated => last.outcome = "returned"

(***************************************************************************)
(* C9, amended.  execute_safe_query never raises: every rejection is a     *)
(* returned value with success false.  ThreadSafeDatabase.execute_query    *)
(* delivers each rejection by raising PermissionError, and raises nothing  *)
(* for a query it accepts.                                                 *)
(***************************************************************************)
C9_RejectionReturnedOrPermissionError ==
    /\ last.fn = "execute_safe_query" =>
          /\ last.outcome = "returned"
          /\ Rejects(last.fn, last.query) => last.success = FALSE
    /\ last.fn = "execute_query" =>
          IF Rejects(last.fn, last.query)
          THEN last.outcome = "raised" /\ last.exception = "PermissionError"
          ELSE last.outcome = "returned"

\* Both kinds of rejection by execute_query reach the caller as exceptions.
C9_Witness ==
    /\ last.fn = "execute_query"
    /\ last.path = "not_select"
    /\ last.outcome = "raised"

ExtraKeywords ==
    {<<"r", "e", "p", "l", "a", "c", "e">>,
     <<"c", "r", "e", "a", "t", "e">>,
     <<"a", "t", "t", "a", "c", "h">>,
     <<"p", "r", "a", "g", "m", "a">>}

C11_ExtraKeywordsForbidden ==
    ( /\ last.fn \in Functions
      /\ FirstToken(last.query) = select
      /\ Tokens(last.query) \cap ExtraKeywords # {} ) =>
        last.path = "blocked"

(***************************************************************************)
(* C11, amended.  The forbidden words are drop, delete, truncate, alter,   *)
(* update and insert only: a query starting with select that has replace,  *)
(* create, attach or pragma as a token, and none of the six words          *)
(* anywhere, is not rejected; it is handed to the database as it is.       *)
(***************************************************************************)
C11_ExtraKeywordsPass ==
    ( /\ last.fn \in Functions
      /\ startswith(lower(strip(last.query)), select)
      /\ Tokens(last.query) \cap ExtraKeywords # {}
      /\ ~HasForbiddenSubstring(last.query) ) =>
        /\ last.path = "executed"
        /\ last.handed = <<last.query>>

\* "SELECT replace(name,'a','b') FROM customers" read by the updated
\* dashboard.
C11_Witness ==
    /\ last.fn = "execute_safe_query"
    /\ last.query = QReplace
    /\ <<"r", "e", "p", "l", "a", "c", "e">> \in Tokens(last.query)
    /\ last.path = "executed"

(***************************************************************************)
(* The filter run by several threads at once, statement by statement.      *)
(* Each call has its own frame: query and query_lower are local variables, *)
(* and the word list is built anew inside each call.                       *)
(***************************************************************************)
allVars == <<vars, restVars>>

\* What the steps of one part leave alone: the variables of the others.
besidesThreads == <<vars, connVars, ticketVars, voiceVars, agentVars,
    singletonVars, cursorVars, seedVars, toolVars, chatVars>>

besidesConnections == <<vars, threadVars, ticketVars, voiceVars, agentVars,
    singletonVars, cursorVars, seedVars, toolVars, chatVars>>

besidesTickets == <<vars, threadVars, connVars, voiceVars, agentVars,
    singletonVars, cursorVars, seedVars, toolVars, chatVars>>

besidesVoice == <<vars, threadVars, connVars, ticketVars, agentVars,
    singletonVars, cursorVars, seedVars, toolVars, chatVars>>

besidesAgents == <<vars, threadVars, connVars, ticketVars, voiceVars,
    singletonVars, cursorVars, seedVars, toolVars, chatVars>>

besidesSingleton == <<vars, threadVars, connVars, ticketVars, voiceVars,
    agentVars, cursorVars, seedVars, toolVars, chatVars>>

besidesCursor == <<vars, threadVars, connVars, ticketVars, voiceVars,
    agentVars, singletonVars, seedVars, toolVars, chatVars>>

besidesSeed == <<vars, threadVars, connVars, ticketVars, voiceVars, agentVars,
    singletonVars, cursorVars, toolVars, chatVars>>

besidesTools == <<vars, threadVars, connVars, ticketVars, voiceVars,
    agentVars, singletonVars, cursorVars, seedVars, chatVars>>

besidesChat == <<vars, threadVars, connVars, ticketVars, voiceVars, agentVars,
    singletonVars, cursorVars, seedVars, toolVars>>

\* The queries the threads pass.
ThreadQueries == {QSelectAll, QDropTable, QReport}

\* A slip: query and query_lower kept in one module-level place that all
\* threads write and read.
FrameOf_shared(t) == CHOOSE u \in Threads : \A v \in Threads : u <= v

\* The frame thread t's call reads and writes: its own.
FrameOf(t) == t

\* The word list of fn.
DangerousList(fn) ==
    IF fn = "execute_safe_query" THEN dangerous ELSE dangerous_operations

\* def execute_safe_query(query) / def execute_query(self, query, ...)
ThreadCall(t) ==
    \E fn \in Updated, q \in ThreadQueries :
        /\ callPc[t] = "idle"
        /\ callPc' = [callPc EXCEPT ![t] = "lower"]
        /\ callArg' = [callArg EXCEPT ![t] = [fn |-> fn, query |-> q]]
        /\ callFrame' = [callFrame EXCEPT ![FrameOf(t)] =
                            [query |-> q, query_lower |-> <<>>]]
        /\ callVerdict' = [callVerdict EXCEPT ![t] = "none"]
        /\ UNCHANGED besidesThreads

\* query_lower = query.strip().lower()
ThreadLower(t) ==
    /\ callPc[t] = "lower"
    /\ callFrame' = [callFrame EXCEPT ![FrameOf(t)].query_lower =
                        lower(strip(callFrame[FrameOf(t)].query))]
    /\ callPc' = [callPc EXCEPT ![t] = "dangerous_test"]
    /\ UNCHANGED <<callArg, callVerdict>>
    /\ UNCHANGED besidesThreads

\* if any(op in query_lower for op in dangerous): return / raise
ThreadDangerousTest(t) ==
    /\ callPc[t] = "dangerous_test"
    /\ IF any_in(DangerousList(callArg[t].fn),
                 callFrame[FrameOf(t)].query_lower)
       THEN /\ callVerdict' = [callVerdict EXCEPT ![t] = "blocked"]
            /\ callPc' = [callPc EXCEPT ![t] = "done"]
       ELSE /\ callPc' = [callPc EXCEPT ![t] = "select_test"]
            /\ UNCHANGED callVerdict
    /\ UNCHANGED <<callArg, callFrame>>
    /\ UNCHANGED besidesThreads

\* if not query_lower.startswith('select'): return / raise
ThreadSelectTest(t) ==
    /\ callPc[t] = "select_test"
    /\ IF ~startswith(callFrame[FrameOf(t)].query_lower, select)
       THEN /\ callVerdict' = [callVerdict EXCEPT ![t] = "not_select"]
            /\ callPc' = [callPc EXCEPT ![t] = "done"]
       ELSE /\ callPc' = [callPc EXCEPT ![t] = "read"]
            /\ UNCHANGED callVerdict
    /\ UNCHANGED <<callArg, callFrame>>
    /\ UNCHANGED besidesThreads

\* The read of the database and the return of its result.
ThreadRead(t) ==
    /\ callPc[t] = "read"
    /\ callVerdict' = [callVerdict EXCEPT ![t] = "executed"]
    /\ callPc' = [callPc EXCEPT ![t] = "done"]
    /\ UNCHANGED <<callArg, callFrame>>
    /\ UNCHANGED besidesThreads

\* The caller has the outcome; the thread is free for its next call.
ThreadReturn(t) ==
    /\ callPc[t] = "done"
    /\ callPc' = [callPc EXCEPT ![t] = "idle"]
    /\ UNCHANGED <<callArg, callFrame, callVerdict>>
    /\ UNCHANGED besidesThreads

ThreadsNext ==
    \E t \in Threads :
        \/ ThreadCall(t)
        \/ ThreadLower(t)
        \/ ThreadDangerousTest(t)
        \/ ThreadSelectTest(t)
        \/ ThreadRead(t)
        \/ ThreadReturn(t)

SpecThreads == IdleInit /\ [][ThreadsNext]_allVars

\* What the call comes to when it runs alone.
AlonePath(fn, q) ==
    IF fn = "execute_safe_query" THEN execute_safe_query(q, TRUE).path
    ELSE execute_query(q, TRUE).path

(***************************************************************************)
(* C12.  The filter is reentrant: however the statements of concurrent     *)
(* calls interleave, each call ends with the outcome it has when it runs   *)
(* alone.                                                                  *)
(***************************************************************************)
C12_ConcurrentCallsAsAlone ==
    \A t \in Threads :
        callPc[t] = "done" =>
            callVerdict[t] = AlonePath(callArg[t].fn, callArg[t].query)

\* One thread has been turned down while another, which entered with a
\* different query after it, is in the middle of its call.
C12_Witness ==
    \E t, u \in Threads :
        /\ callPc[t] = "done" /\ callVerdict[t] = "blocked"
        /\ callPc[u] = "select_test"
        /\ callArg[u].query # callArg[t].query

(***************************************************************************)
(* The connection handles, taken and closed by several threads.            *)
(***************************************************************************)
\* A slip: the connection kept in an ordinary attribute, one for all
\* threads.
ConnSlotOf_shared(t) == CHOOSE u \in Threads : \A v \in Threads : u <= v

\* threading.local(): the attribute thread t reads and writes is its own.
ConnSlotOf(t) == t

\* get_db_connection() / ThreadSafeDatabase.get_connection()
GetConnection(st, t) ==
    LET k == ConnSlotOf(t)
        has == connSlot[st][k] # 0
        given == IF has THEN connSlot[st][k] ELSE connCreated + 1
    IN  /\ ~has => connCreated < MaxConnections
        /\ connSlot' = [connSlot EXCEPT ![st][k] = given]
        /\ connCreated' = IF has THEN connCreated ELSE connCreated + 1
        /\ connHeld' = [connHeld EXCEPT ![t] = @ \cup {given}]
        /\ connPrior' = [connPrior EXCEPT ![st][t] = "get"]
        /\ lastConn' = [op |-> "get", store |-> st, thread |-> t,
                        prior |-> connPrior[st][t], created |-> ~has,
                        returned |-> given, existing |-> connCreated]
        /\ UNCHANGED connClosed
        /\ UNCHANGED besidesConnections

\* ThreadSafeDatabase.close_all_connections()
CloseAllConnections(t) ==
    LET k == ConnSlotOf(t)
        has == connSlot["database"][k] # 0
    IN  /\ connSlot' = [connSlot EXCEPT !["database"][k] = 0]
        /\ connClosed' = IF has THEN connClosed \cup {connSlot["database"][k]}
                         ELSE connClosed
        /\ connPrior' = [connPrior EXCEPT !["database"][t] = "close"]
        /\ lastConn' = [op |-> "close", store |-> "database", thread |-> t,
                        prior |-> connPrior["database"][t], created |-> FALSE,
                        returned |-> 0, existing |-> connCreated]
        /\ UNCHANGED <<connCreated, connHeld>>
        /\ UNCHANGED besidesConnections

ConnectionsNext ==
    \/ \E st \in Stores, t \in Threads : GetConnection(st, t)
    \/ \E t \in Threads : CloseAllConnections(t)

SpecConnections == IdleInit /\ [][ConnectionsNext]_allVars

Texts == {<<>>, <<" ">>, <<"x">>}

\* Two of the selectbox's priorities.
Priorities == {"Medium", "High"}

\* The ticket_id values already in the table (the column is UNIQUE).
StoredIds == {ticketTable[i].ticket_id : i \in 1..Len(ticketTable)}

Filing(ui, title, description, priority, outcome) ==
    [ui |-> ui, title |-> title, description |-> description,
     priority |-> priority, outcome |-> outcome]

\* The clock reaches the next second.
Tick ==
    /\ clock < MaxClock
    /\ clock' = clock + 1
    /\ UNCHANGED <<ticketFile, ticketTable, show_ticket_form, messages,
                   filings, lastFiling>>
    /\ UNCHANGED besidesTickets

\* First dashboard: if st.button("Create Support Ticket"): ...
SidebarCreateTicket ==
    \E description \in Texts, writeOk \in BOOLEAN :
        /\ filings < MaxFilings
        /\ filings' = filings + 1
        /\ IF strip(description) # <<>>
           THEN IF writeOk
                THEN /\ ticketFile' = Append(ticketFile,
                            [id |-> clock, description |-> description,
                             status |-> "open", priority |-> "medium"])
                     /\ lastFiling' = Filing("sidebar", <<>>, description,
                                             "medium", "stored")
                ELSE /\ ticketFile' = ticketFile
                     /\ lastFiling' = Filing("sidebar", <<>>, description,
                                             "medium", "write_error")
           ELSE /\ ticketFile' = ticketFile
                /\ lastFiling' = Filing("sidebar", <<>>, description,
                                        "medium", "warning")
        /\ UNCHANGED <<clock, ticketTable, show_ticket_form, messages>>
        /\ UNCHANGED besidesTickets

\* Updated dashboard, sidebar: st.session_state.show_ticket_form = True
OpenTicketForm ==
    /\ ~show_ticket_form
    /\ show_ticket_form' = TRUE
    /\ UNCHANGED <<clock, ticketFile, ticketTable, messages, filings,
                   lastFiling>>
    /\ UNCHANGED besidesTickets

\* Updated dashboard: the form's submit button, with create_support_ticket.
\* The INSERT of a ticket_id that is already stored raises
\* sqlite3.IntegrityError, which nothing catches.
\* `title and description`: both fields are filled in.
FormComplete_title_only(title, description) == title # <<>>

FormComplete(title, description) == title # <<>> /\ description # <<>>

SubmitTicketForm ==
    \E title \in Texts, description \in Texts, priority \in Priorities :
        /\ show_ticket_form
        /\ filings < MaxFilings
        /\ filings' = filings + 1
        /\ IF FormComplete(title, description)
           THEN IF clock \in StoredIds
                THEN /\ lastFiling' = Filing("form", title, description,
                                             priority, "raised")
                     /\ UNCHANGED <<ticketTable, messages, show_ticket_form>>
                ELSE /\ ticketTable' = Append(ticketTable,
                            [ticket_id |-> clock, title |-> title,
                             description |-> description,
                             status |-> "Open", priority |-> priority])
                     /\ messages' = Append(messages,
                            [role |-> "assistant", content |-> "ticket"])
                     /\ show_ticket_form' = FALSE
                     /\ lastFiling' = Filing("form", title, description,
                                             priority, "stored")
           ELSE /\ lastFiling' = Filing("form", title, description,
                                        priority, "ignored")
                /\ UNCHANGED <<ticketTable, messages, show_ticket_form>>
        /\ UNCHANGED <<clock, ticketFile>>
        /\ UNCHANGED besidesTickets

\* Updated dashboard: the form's cancel button.
CancelTicketForm ==
    /\ show_ticket_form
    /\ show_ticket_form' = FALSE
    /\ UNCHANGED <<clock, ticketFile, ticketTable, messages, filings,
                   lastFiling>>
    /\ UNCHANGED besidesTickets

TicketsNext ==
    \/ Tick
    \/ SidebarCreateTicket
    \/ OpenTicketForm
    \/ SubmitTicketForm
    \/ CancelTicketForm

SpecTickets == IdleInit /\ [][TicketsNext]_allVars

\* One record with an open status was put after those of before.
AppendedOpen(before, after) ==
    /\ Len(after) = Len(before) + 1
    /\ SubSeq(after, 1, Len(before)) = before
    /\ after[Len(after)].status \in {"open", "Open"}

(***************************************************************************)
(* C14.  Every ticket request with a description (first dashboard), or     *)
(* with a title and a description (updated dashboard), appends exactly one *)
(* record with status open to its store and changes no stored record;      *)
(* a request with a blank description, or with title or description        *)
(* missing, stores nothing.  (A request whose file the operating system    *)
(* refuses to open is left aside.)                                         *)
(***************************************************************************)
C14_FilingAppendsOneRecord ==
    [][(filings' # filings /\ lastFiling'.outcome # "write_error") =>
          /\ lastFiling'.ui = "sidebar" =>
                /\ ticketTable' = ticketTable
                /\ IF strip(lastFiling'.description) # <<>>
                   THEN AppendedOpen(ticketFile, ticketFile')
                   ELSE ticketFile' = ticketFile
          /\ lastFiling'.ui = "form" =>
                /\ ticketFile' = ticketFile
                /\ IF lastFiling'.title # <<>> /\ lastFiling'.description # <<>>
                   THEN AppendedOpen(ticketTable, ticketTable')
                   ELSE ticketTable' = ticketTable]_allVars

(***************************************************************************)
(* The voice-to-image script, one stage at a time.                         *)
(***************************************************************************)
\* Python's truth of a string or None ("None" stands for None).
Truthy(x) == x \notin {"", "None"}

\* if transcript and openai_api_key:
CompletionStageRuns(tr, key) == Truthy(tr) /\ Truthy(key)

\* A slip: the image stage asks only for the key.
ImageStageRuns_key_only(prompt, key) == Truthy(key)

\* if image_prompt and openai_api_key:
ImageStageRuns(prompt, key) == Truthy(prompt) /\ Truthy(key)

\* The script starts (a widget changed): the key and the audio are read,
\* transcript = "".
VoiceRun ==
    \E audio \in {"recorded", "uploaded", "none"}, key \in {"", "sk"} :
        /\ voicePc = "idle"
        /\ voiceRuns < MaxRuns
        /\ voiceRuns' = voiceRuns + 1
        /\ audio_source' = audio
        /\ openai_api_key' = key
        /\ transcript' = ""
        /\ image_prompt' = ""
        /\ generated_image_url' = ""
        /\ externalCalls' = <<>>
        /\ stageOutcome' = NoOutcomes
        /\ voicePc' = "transcription"
        /\ UNCHANGED besidesVoice

\* if audio_bytes: ... elif audio_file: ... recognize_google(audio).
\* An exception other than UnknownValueError and RequestError, or one
\* raised while the audio is prepared, ends the run.
VoiceTranscription ==
    /\ voicePc = "transcription"
    /\ IF audio_source = "none"
       THEN /\ voicePc' = "completion"
            /\ UNCHANGED <<transcript, externalCalls, stageOutcome>>
       ELSE \E out \in {"text", "empty", "UnknownValueError", "RequestError",
                        "other_exception", "audio_unreadable"} :
               /\ externalCalls' =
                     IF out = "audio_unreadable" THEN externalCalls
                     ELSE Append(externalCalls, "recognize_google")
               /\ transcript' = IF out = "text" THEN "a red house" ELSE ""
               /\ stageOutcome' =
                     [stageOutcome EXCEPT !["transcription"] =
                         IF out = "text" THEN "ok"
                         ELSE IF out = "empty" THEN "empty" ELSE "failed"]
               /\ voicePc' = IF out \in {"other_exception", "audio_unreadable"}
                             THEN "ended" ELSE "completion"
    /\ UNCHANGED <<audio_source, openai_api_key, image_prompt,
                   generated_image_url, voiceRuns>>
    /\ UNCHANGED besidesVoice

\* image_prompt = ""; if transcript and openai_api_key: chat.completions
VoiceCompletion ==
    /\ voicePc = "completion"
    /\ IF CompletionStageRuns(transcript, openai_api_key)
       THEN \E out \in {"prompt", "empty", "None", "exception"} :
               /\ externalCalls' =
                     Append(externalCalls, "chat.completions.create")
               /\ image_prompt' = IF out = "prompt" THEN "a detailed prompt"
                                  ELSE IF out = "None" THEN "None" ELSE ""
               /\ stageOutcome' =
                     [stageOutcome EXCEPT !["completion"] =
                         IF out = "prompt" THEN "ok"
                         ELSE IF out = "exception" THEN "failed" ELSE "empty"]
       ELSE /\ image_prompt' = ""
            /\ UNCHANGED <<externalCalls, stageOutcome>>
    /\ voicePc' = "image"
    /\ UNCHANGED <<audio_source, openai_api_key, transcript,
                   generated_image_url, voiceRuns>>
    /\ UNCHANGED besidesVoice

\* generated_image_url = ""; if image_prompt and openai_api_key: images
VoiceImage ==
    /\ voicePc = "image"
    /\ IF ImageStageRuns(image_prompt, openai_api_key)
       THEN \E out \in {"url", "exception"} :
               /\ externalCalls' = Append(externalCalls, "images.generate")
               /\ generated_image_url' =
                     IF out = "url" THEN "https://image" ELSE ""
               /\ stageOutcome' =
                     [stageOutcome EXCEPT !["image"] =
                         IF out = "url" THEN "ok" ELSE "failed"]
       ELSE /\ generated_image_url' = ""
            /\ UNCHANGED <<externalCalls, stageOutcome>>
    /\ voicePc' = "ended"
    /\ UNCHANGED <<audio_source, openai_api_key, transcript, image_prompt,
                   voiceRuns>>
    /\ UNCHANGED besidesVoice

\* The script has run to its end (or died); the page waits for the user.
VoiceEnd ==
    /\ voicePc = "ended"
    /\ voicePc' = "idle"
    /\ UNCHANGED <<audio_source, openai_api_key, transcript, image_prompt,
                   generated_image_url, externalCalls, stageOutcome,
                   voiceRuns>>
    /\ UNCHANGED besidesVoice

VoiceNext ==
    \/ VoiceRun
    \/ VoiceTranscription
    \/ VoiceCompletion
    \/ VoiceImage
    \/ VoiceEnd

SpecVoice == IdleInit /\ [][VoiceNext]_allVars

\* The three remote calls in pipeline order.
Pipeline == <<"recognize_google", "chat.completions.create", "images.generate">>

Made(call) == \E i \in 1..Len(externalCalls) : externalCalls[i] = call

(***************************************************************************)
(* C15.  In every run the remote calls are made in the order               *)
(* transcription, text completion, image generation; the text completion   *)
(* is called only with a non-empty transcript and a key, the image         *)
(* generation only with a non-empty image prompt returned by the           *)
(* completion; after a stage failed or came back empty, no later stage's   *)
(* call is made in that run.                                               *)
(***************************************************************************)
C15_StagesInOrder ==
    /\ Len(externalCalls) <= Len(Pipeline)
    /\ externalCalls = SubSeq(Pipeline, 1, Len(externalCalls))
    /\ Made("chat.completions.create") =>
          /\ transcript # "" /\ openai_api_key # ""
          /\ stageOutcome["transcription"] = "ok"
    /\ Made("images.generate") =>
          /\ image_prompt \notin {"", "None"}
          /\ stageOutcome["completion"] = "ok"
    /\ stageOutcome["transcription"] \in {"failed", "empty"} =>
          /\ ~Made("chat.completions.create")
          /\ ~Made("images.generate")
    /\ stageOutcome["completion"] \in {"failed", "empty"} =>
          ~Made("images.generate")

\* A run with a key and a transcript has ended whose text completion
\* failed or came back empty: two calls were made and no image call.
C15_Witness ==
    /\ voicePc = "ended"
    /\ stageOutcome["transcription"] = "ok"
    /\ stageOutcome["completion"] \in {"failed", "empty"}
    /\ Len(externalCalls) = 2

(***************************************************************************)
(* The keyword agents: DataInsightsAgent.process_query of the first        *)
(* dashboard, get_demo_response and get_ai_response_with_tools of the      *)
(* updated dashboard.                                                      *)
(***************************************************************************)
\* ['hello', 'hi', 'hey']
greeting_words ==
    <<<<"h", "e", "l", "l", "o">>,
      <<"h", "i">>,
      <<"h", "e", "y">>>>

\* ['best', 'top', 'popular']
best_words ==
    <<<<"b", "e", "s", "t">>,
      <<"t", "o", "p">>,
      <<"p", "o", "p", "u", "l", "a", "r">>>>

\* ['region', 'area', 'country']
regional_words ==
    <<<<"r", "e", "g", "i", "o", "n">>,
      <<"a", "r", "e", "a">>,
      <<"c", "o", "u", "n", "t", "r", "y">>>>

\* ['trend', 'month', 'growth', 'over time']
trend_words ==
    <<<<"t", "r", "e", "n", "d">>,
      <<"m", "o", "n", "t", "h">>,
      <<"g", "r", "o", "w", "t", "h">>,
      <<"o", "v", "e", "r", " ", "t", "i", "m", "e">>>>

\* ['summary', 'overview', 'insight']
summary_words ==
    <<<<"s", "u", "m", "m", "a", "r", "y">>,
      <<"o", "v", "e", "r", "v", "i", "e", "w">>,
      <<"i", "n", "s", "i", "g", "h", "t">>>>

\* ['help', 'support', 'ticket', 'issue', 'problem']
support_words ==
    <<<<"h", "e", "l", "p">>,
      <<"s", "u", "p", "p", "o", "r", "t">>,
      <<"t", "i", "c", "k", "e", "t">>,
      <<"i", "s", "s", "u", "e">>,
      <<"p", "r", "o", "b", "l", "e", "m">>>>

WTotal ==
    <<"t", "o", "t", "a", "l">>

WSales ==
    <<"s", "a", "l", "e", "s">>

WProduct ==
    <<"p", "r", "o", "d", "u", "c", "t">>

WRegion ==
    <<"r", "e", "g", "i", "o", "n">>

WTop ==
    <<"t", "o", "p">>

WStat ==
    <<"s", "t", "a", "t">>

WInsight ==
    <<"i", "n", "s", "i", "g", "h", "t">>

WSupport ==
    <<"s", "u", "p", "p", "o", "r", "t">>

WTicket ==
    <<"t", "i", "c", "k", "e", "t">>

WHello ==
    <<"h", "e", "l", "l", "o">>

WHi ==
    <<"h", "i">>

\* The SQL texts the handlers of process_query pass to execute_safe_query.
TotalSalesQuery ==
    <<"S", "E", "L", "E", "C", "T", " ", "S", "U", "M", "(", "a", "m", "o",
      "u", "n", "t", ")", " ", "a", "s", " ", "t", "o", "t", "a", "l", "_",
      "s", "a", "l", "e", "s", ",", " ", "C", "O", "U", "N", "T", "(", "*",
      ")", " ", "a", "s", " ", "t", "r", "a", "n", "s", "a", "c", "t", "i",
      "o", "n", "s", " ", "F", "R", "O", "M", " ", "s", "a", "l", "e", "s">>

BestProductQuery ==
    <<"\n", " ", " ", " ", " ", " ", " ", " ", " ", " ", " ", " ", " ", " ",
      " ", " ", " ", " ", " ", " ", " ", " ", " ", " ", " ", " ", " ", " ",
      " ", " ", " ", " ", " ", " ", " ", " ", " ", " ", " ", " ", " ", " ",
      " ", " ", " ", " ", " ", " ", " ", " ", " ", " ", " ", " ", " ", " ",
      " ", " ", "S", "E", "L", "E", "C", "T", " ", "p", "r", "o", "d", "u",
      "c", "t", ",", " ", "S", "U", "M", "(", "a", "m", "o", "u", "n", "t",
      ")", " ", "a", "s", " ", "r", "e", "v", "e", "n", "u", "e", ",", " ",
      "C", "O", "U", "N", "T", "(", "*", ")", " ", "a", "s", " ", "u", "n",
      "i", "t", "s", "_", "s", "o", "l", "d", "\n", " ", " ", " ", " ", " ",
      " ", " ", " ", " ", " ", " ", " ", " ", " ", " ", " ", " ", " ", " ",
      " ", " ", " ", " ", " ", " ", " ", " ", " ", " ", " ", " ", " ", " ",
      " ", " ", " ", " ", " ", " ", " ", " ", " ", " ", " ", " ", " ", " ",
      " ", " ", " ", " ", " ", " ", " ", " ", " ", " ", "F", "R", "O", "M",
      " ", "s", "a", "l", "e", "s", "\n", " ", " ", " ", " ", " ", " ", " ",
      " ", " ", " ", " ", " ", " ", " ", " ", " ", " ", " ", " ", " ", " ",
      " ", " ", " ", " ", " ", " ", " ", " ", " ", " ", " ", " ", " ", " ",
      " ", " ", " ", " ", " ", " ", " ", " ", " ", " ", " ", " ", " ", " ",
      " ", " ", " ", " ", " ", " ", " ", " ", "G", "R", "O", "U", "P", " ",
      "B", "Y", " ", "p", "r", "o", "d", "u", "c", "t", "\n", " ", " ", " ",
      " ", " ", " ", " ", " ", " ", " ", " ", " ", " ", " ", " ", " ", " ",
      " ", " ", " ", " ", " ", " ", " ", " ", " ", " ", " ", " ", " ", " ",
      " ", " ", " ", " ", " ", " ", " ", " ", " ", " ", " ", " ", " ", " ",
      " ", " ", " ", " ", " ", " ", " ", " ", " ", " ", " ", " ", "O", "R",
      "D", "E", "R", " ", "B", "Y", " ", "r", "e", "v", "e", "n", "u", "e",
      " ", "D", "E", "S", "C", " ", "L", "I", "M", "I", "T", " ", "3", "\n",
      " ", " ", " ", " ", " ", " ", " ", " ", " ", " ", " ", " ", " ", " ",
      " ", " ", " ", " ", " ", " ", " ", " ", " ", " ", " ", " ", " ", " ",
      " ", " ", " ", " ", " ", " ", " ", " ", " ", " ", " ", " ", " ", " ",
      " ", " ", " ", " ", " ", " ", " ", " ", " ", " ", " ", " ", " ", " ",
      " ">>

RegionalQuery ==
    <<"\n", " ", " ", " ", " ", " ", " ", " ", " ", " ", " ", " ", " ", " ",
      " ", " ", " ", " ", " ", " ", " ", " ", " ", " ", " ", " ", " ", " ",
      " ", " ", " ", " ", " ", " ", " ", " ", " ", " ", " ", " ", " ", " ",
      " ", " ", " ", " ", " ", " ", " ", " ", " ", " ", " ", " ", " ", " ",
      " ", " ", "S", "E", "L", "E", "C", "T", " ", "r", "e", "g", "i", "o",
      "n", ",", " ", "S", "U", "M", "(", "a", "m", "o", "u", "n", "t", ")",
      " ", "a", "s", " ", "r", "e", "v", "e", "n", "u", "e", ",", " ", "C",
      "O", "U", "N", "T", "(", "*", ")", " ", "a", "s", " ", "t", "r", "a",
      "n", "s", "a", "c", "t", "i", "o", "n", "s", "\n", " ", " ", " ", " ",
      " ", " ", " ", " ", " ", " ", " ", " ", " ", " ", " ", " ", " ", " ",
      " ", " ", " ", " ", " ", " ", " ", " ", " ", " ", " ", " ", " ", " ",
      " ", " ", " ", " ", " ", " ", " ", " ", " ", " ", " ", " ", " ", " ",
      " ", " ", " ", " ", " ", " ", " ", " ", " ", " ", " ", "F", "R", "O",
      "M", " ", "s", "a", "l", "e", "s", "\n", " ", " ", " ", " ", " ", " ",
      " ", " ", " ", " ", " ", " ", " ", " ", " ", " ", " ", " ", " ", " ",
      " ", " ", " ", " ", " ", " ", " ", " ", " ", " ", " ", " ", " ", " ",
      " ", " ", " ", " ", " ", " ", " ", " ", " ", " ", " ", " ", " ", " ",
      " ", " ", " ", " ", " ", " ", " ", " ", " ", "G", "R", "O", "U", "P",
      " ", "B", "Y", " ", "r", "e", "g", "i", "o", "n", "\n", " ", " ", " ",
      " ", " ", " ", " ", " ", " ", " ", " ", " ", " ", " ", " ", " ", " ",
      " ", " ", " ", " ", " ", " ", " ", " ", " ", " ", " ", " ", " ", " ",
      " ", " ", " ", " ", " ", " ", " ", " ", " ", " ", " ", " ", " ", " ",
      " ", " ", " ", " ", " ", " ", " ", " ", " ", " ", " ", " ", "O", "R",
      "D", "E", "R", " ", "B", "Y", " ", "r", "e", "v", "e", "n", "u", "e",
      " ", "D", "E", "S", "C", "\n", " ", " ", " ", " ", " ", " ", " ", " ",
      " ", " ", " ", " ", " ", " ", " ", " ", " ", " ", " ", " ", " ", " ",
      " ", " ", " ", " ", " ", " ", " ", " ", " ", " ", " ", " ", " ", " ",
      " ", " ", " ", " ", " ", " ", " ", " ", " ", " ", " ", " ", " ", " ",
      " ", " ", " ", " ", " ", " ", " ">>

TrendQuery ==
    <<"\n", " ", " ", " ", " ", " ", " ", " ", " ", " ", " ", " ", " ", " ",
      " ", " ", " ", " ", " ", " ", " ", " ", " ", " ", " ", " ", " ", " ",
      " ", " ", " ", " ", " ", " ", " ", " ", " ", " ", " ", " ", " ", " ",
      " ", " ", " ", " ", " ", " ", " ", " ", " ", " ", " ", " ", " ", " ",
      " ", " ", "S", "E", "L", "E", "C", "T", " ", "s", "t", "r", "f", "t",
      "i", "m", "e", "(", "'", "%", "Y", "-", "%", "m", "'", ",", " ", "d",
      "a", "t", "e", ")", " ", "a", "s", " ", "m", "o", "n", "t", "h", ",",
      " ", "\n", " ", " ", " ", " ", " ", " ", " ", " ", " ", " ", " ", " ",
      " ", " ", " ", " ", " ", " ", " ", " ", " ", " ", " ", "S", "U", "M",
      "(", "a", "m", "o", "u", "n", "t", ")", " ", "a", "s", " ", "r", "e",
      "v", "e", "n", "u", "e", ",", "\n", " ", " ", " ", " ", " ", " ", " ",
      " ", " ", " ", " ", " ", " ", " ", " ", " ", " ", " ", " ", " ", " ",
      " ", " ", "C", "O", "U", "N", "T", "(", "*", ")", " ", "a", "s", " ",
      "t", "r", "a", "n", "s", "a", "c", "t", "i", "o", "n", "s", "\n", " ",
      " ", " ", " ", " ", " ", " ", " ", " ", " ", " ", " ", " ", " ", " ",
      " ", " ", " ", " ", " ", " ", " ", " ", " ", " ", " ", " ", " ", " ",
      " ", " ", " ", " ", " ", " ", " ", " ", " ", " ", " ", " ", " ", " ",
      " ", " ", " ", " ", " ", " ", " ", " ", " ", " ", " ", " ", " ", " ",
      "F", "R", "O", "M", " ", "s", "a", "l", "e", "s", "\n", " ", " ", " ",
      " ", " ", " ", " ", " ", " ", " ", " ", " ", " ", " ", " ", " ", " ",
      " ", " ", " ", " ", " ", " ", " ", " ", " ", " ", " ", " ", " ", " ",
      " ", " ", " ", " ", " ", " ", " ", " ", " ", " ", " ", " ", " ", " ",
      " ", " ", " ", " ", " ", " ", " ", " ", " ", " ", " ", " ", "G", "R",
      "O", "U", "P", " ", "B", "Y", " ", "m", "o", "n", "t", "h", "\n", " ",
      " ", " ", " ", " ", " ", " ", " ", " ", " ", " ", " ", " ", " ", " ",
      " ", " ", " ", " ", " ", " ", " ", " ", " ", " ", " ", " ", " ", " ",
      " ", " ", " ", " ", " ", " ", " ", " ", " ", " ", " ", " ", " ", " ",
      " ", " ", " ", " ", " ", " ", " ", " ", " ", " ", " ", " ", " ", " ",
      "O", "R", "D", "E", "R", " ", "B", "Y", " ", "m", "o", "n", "t", "h",
      "\n", " ", " ", " ", " ", " ", " ", " ", " ", " ", " ", " ", " ", " ",
      " ", " ", " ", " ", " ", " ", " ", " ", " ", " ", " ", " ", " ", " ",
      " ", " ", " ", " ", " ", " ", " ", " ", " ", " ", " ", " ", " ", " ",
      " ", " ", " ", " ", " ", " ", " ", " ", " ", " ", " ", " ", " ", " ",
      " ", " ", " ", " ", " ", " ", "L", "I", "M", "I", "T", " ", "6", "\n",
      " ", " ", " ", " ", " ", " ", " ", " ", " ", " ", " ", " ", " ", " ",
      " ", " ", " ", " ", " ", " ", " ", " ", " ", " ", " ", " ", " ", " ",
      " ", " ", " ", " ", " ", " ", " ", " ", " ", " ", " ", " ", " ", " ",
      " ", " ", " ", " ", " ", " ", " ", " ", " ", " ", " ", " ", " ", " ",
      " ">>

\* The SQL texts the handlers of get_demo_response pass to execute_safe_query.
SalesByRegionQuery ==
    <<"S", "E", "L", "E", "C", "T", " ", "r", "e", "g", "i", "o", "n", ",",
      " ", "S", "U", "M", "(", "r", "e", "v", "e", "n", "u", "e", ")", " ",
      "a", "s", " ", "t", "o", "t", "a", "l", " ", "F", "R", "O", "M", " ",
      "s", "a", "l", "e", "s", " ", "G", "R", "O", "U", "P", " ", "B", "Y",
      " ", "r", "e", "g", "i", "o", "n">>

TopProductsQuery ==
    <<"S", "E", "L", "E", "C", "T", " ", "p", "r", "o", "d", "u", "c", "t",
      ",", " ", "S", "U", "M", "(", "q", "u", "a", "n", "t", "i", "t", "y",
      ")", " ", "a", "s", " ", "t", "o", "t", "a", "l", " ", "F", "R", "O",
      "M", " ", "s", "a", "l", "e", "s", " ", "G", "R", "O", "U", "P", " ",
      "B", "Y", " ", "p", "r", "o", "d", "u", "c", "t", " ", "O", "R", "D",
      "E", "R", " ", "B", "Y", " ", "t", "o", "t", "a", "l", " ", "D", "E",
      "S", "C", " ", "L", "I", "M", "I", "T", " ", "5">>

\* A handler ran and returned; a handler ran and raised.
Ran(handler, value) ==
    [ran |-> <<handler>>, outcome |-> "returned", value |-> value,
     apiCalls |-> 0, demoCalls |-> 0]

Threw(handler) ==
    [ran |-> <<handler>>, outcome |-> "raised", value |-> "none",
     apiCalls |-> 0, demoCalls |-> 0]

\* The tests of process_query, on user_input.lower().
pq_is_greeting(l) == any_in(greeting_words, l)

pq_is_total_sales(l) == contains(l, WTotal) /\ contains(l, WSales)

pq_is_best_product(l) == any_in(best_words, l) /\ contains(l, WProduct)

pq_is_regional(l) == any_in(regional_words, l)

pq_is_trend(l) == any_in(trend_words, l)

pq_is_summary(l) == any_in(summary_words, l)

pq_is_support(l) == any_in(support_words, l)

\* A handler of process_query that runs one SQL text through the first
\* dashboard's execute_safe_query; without a frame the response is
\* whatEmpty.
QueryHandler(handler, query, dbOk, whatEmpty) ==
    Ran(handler,
        IF data_app_execute_safe_query(query, dbOk).success
        THEN "text" ELSE whatEmpty)

\* A slip: the support test moved in front of the others.
process_query_support_first(user_input, dbOk) ==
    LET l == lower(user_input)
    IN  IF pq_is_support(l) THEN Ran("suggest_support_ticket", "text")
        ELSE IF pq_is_greeting(l) THEN Ran("greeting", "text")
        ELSE IF pq_is_total_sales(l)
        THEN QueryHandler("total_sales", TotalSalesQuery, dbOk, "error_text")
        ELSE IF pq_is_best_product(l)
        THEN QueryHandler("best_product", BestProductQuery, dbOk, "empty")
        ELSE IF pq_is_regional(l)
        THEN QueryHandler("regional", RegionalQuery, dbOk, "empty")
        ELSE IF pq_is_trend(l)
        THEN QueryHandler("trend", TrendQuery, dbOk, "empty")
        ELSE IF pq_is_summary(l) THEN Ran("get_data_summary", "text")
        ELSE Ran("default", "text")

\* DataInsightsAgent.process_query(user_input)
process_query(user_input, dbOk) ==
    LET l == lower(user_input)
    IN  IF pq_is_greeting(l) THEN Ran("greeting", "text")
        ELSE IF pq_is_total_sales(l)
        THEN QueryHandler("total_sales", TotalSalesQuery, dbOk, "error_text")
        ELSE IF pq_is_best_product(l)
        THEN QueryHandler("best_product", BestProductQuery, dbOk, "empty")
        ELSE IF pq_is_regional(l)
        THEN QueryHandler("regional", RegionalQuery, dbOk, "empty")
        ELSE IF pq_is_trend(l)
        THEN QueryHandler("trend", TrendQuery, dbOk, "empty")
        ELSE IF pq_is_summary(l) THEN Ran("get_data_summary", "text")
        ELSE IF pq_is_support(l) THEN Ran("suggest_support_ticket", "text")
        ELSE Ran("default", "text")

\* The tests of get_demo_response, on user_query.lower().
demo_is_sales_by_region(l) == contains(l, WSales) /\ contains(l, WRegion)

demo_is_top_products(l) == contains(l, WTop) /\ contains(l, WProduct)

demo_is_stats(l) == contains(l, WStat) \/ contains(l, WInsight)

demo_is_support(l) == contains(l, WSupport) \/ contains(l, WTicket)

demo_is_greeting(l) == contains(l, WHello) \/ contains(l, WHi)

\* A handler of get_demo_response that runs one SQL text through
\* execute_safe_query and returns a message only if result["success"];
\* otherwise the function runs off its end and returns None.
DemoQueryHandler(handler, query, dbOk) ==
    [Ran(handler,
         IF execute_safe_query(query, dbOk).success
         THEN "content" ELSE "None") EXCEPT !.demoCalls = 1]

\* get_demo_response(user_query).  statsOk: whether get_database_stats()
\* returned (TRUE) or one of its statements raised (FALSE); nothing
\* catches that exception.
get_demo_response(user_query, dbOk, statsOk) ==
    LET l == lower(user_query)
    IN  IF demo_is_sales_by_region(l)
        THEN DemoQueryHandler("sales_by_region", SalesByRegionQuery, dbOk)
        ELSE IF demo_is_top_products(l)
        THEN DemoQueryHandler("top_products", TopProductsQuery, dbOk)
        ELSE IF demo_is_stats(l)
        THEN [(IF statsOk THEN Ran("get_database_stats", "content")
               ELSE Threw("get_database_stats")) EXCEPT !.demoCalls = 1]
        ELSE IF demo_is_support(l)
        THEN [Ran("support", "content") EXCEPT !.demoCalls = 1]
        ELSE IF demo_is_greeting(l)
        THEN [Ran("greeting", "content") EXCEPT !.demoCalls = 1]
        ELSE [Ran("default", "content") EXCEPT !.demoCalls = 1]

\* What the POST to the chat completions API can come to: a 200 with a
\* first choice; another status; a 200 whose body has no "choices" or an
\* empty list; an exception of requests.post or of response.json().
ApiOutcomes ==
    {"ok", "status_not_200", "no_choices", "empty_choices", "timeout",
     "connection_error", "bad_json"}

ApiRaises == {"timeout", "connection_error", "bad_json"}

\* get_ai_response_with_tools(user_query, use_api).  The fallback of the
\* try body is itself inside the try: if it raises, the except clause calls
\* get_demo_response a second time (retry: whether get_database_stats
\* returns that time).
get_ai_response_with_tools(user_query, use_api, api, dbOk, statsOk, retry) ==
    LET first == get_demo_response(user_query, dbOk, statsOk)
        again == get_demo_response(user_query, dbOk, retry)
    IN  IF ~use_api THEN first
        ELSE IF api = "ok"
        THEN [ran |-> <<>>, outcome |-> "returned", value |-> "message",
              apiCalls |-> 1, demoCalls |-> 0]
        ELSE IF api \in ApiRaises
        THEN [first EXCEPT !.apiCalls = 1]
        ELSE IF first.outcome = "raised"
        THEN [again EXCEPT !.ran = first.ran \o again.ran,
                           !.apiCalls = 1, !.demoCalls = 2]
        ELSE [first EXCEPT !.apiCalls = 1]

\* The words the user's inputs are put together from.
AgentWords ==
    {<<"H", "i">>,
     <<"t", "h", "i", "s">>,
     <<"t", "o", "t", "a", "l">>,
     <<"S", "a", "l", "e", "s">>,
     <<"r", "e", "g", "i", "o", "n">>,
     <<"T", "o", "p">>,
     <<"p", "r", "o", "d", "u", "c", "t">>,
     <<"t", "r", "e", "n", "d">>,
     <<"i", "n", "s", "i", "g", "h", "t">>,
     <<"t", "i", "c", "k", "e", "t">>}

\* The inputs of one to n words, a space between the words.
RECURSIVE Phrases(_)
Phrases(n) ==
    IF n = 1 THEN AgentWords
    ELSE LET shorter == Phrases(n - 1)
         IN  shorter \cup {p \o <<" ">> \o v : p \in shorter, v \in AgentWords}

AgentInputs == Phrases(MaxWords)

Answer(fn, use_api, api, r) ==
    [fn |-> fn, ran |-> r.ran, outcome |-> r.outcome, value |-> r.value,
     use_api |-> use_api, api |-> api, apiCalls |-> r.apiCalls,
     demoCalls |-> r.demoCalls]

\* The user types a question (st.chat_input gives no empty text).
TypeInput ==
    \E input \in AgentInputs :
        /\ agentPhase = "idle"
        /\ agentPhase' = "typed"
        /\ agentInput' = input
        /\ agentLast' = NoAnswer
        /\ UNCHANGED besidesAgents

\* First dashboard: agent.process_query(user_input)
AskDataApp ==
    \E dbOk \in BOOLEAN :
        /\ agentPhase = "typed"
        /\ agentPhase' = "answered"
        /\ agentLast' = Answer("process_query", FALSE, "none",
                               process_query(agentInput, dbOk))
        /\ UNCHANGED agentInput
        /\ UNCHANGED besidesAgents

\* Updated dashboard: get_demo_response(user_query)
AskDemo ==
    \E dbOk \in BOOLEAN, statsOk \in BOOLEAN :
        /\ agentPhase = "typed"
        /\ agentPhase' = "answered"
        /\ agentLast' = Answer("get_demo_response", FALSE, "none",
                               get_demo_response(agentInput, dbOk, statsOk))
        /\ UNCHANGED agentInput
        /\ UNCHANGED besidesAgents

\* Updated dashboard: get_ai_response_with_tools(user_input, use_api)
AskAI ==
    \E use_api \in BOOLEAN, api \in ApiOutcomes, dbOk \in BOOLEAN,
       statsOk \in BOOLEAN, statsAgain \in BOOLEAN :
        /\ agentPhase = "typed"
        /\ ~use_api => api = "ok"
        /\ agentPhase' = "answered"
        /\ agentLast' = Answer("get_ai_response_with_tools", use_api,
                               IF use_api THEN api ELSE "none",
                               get_ai_response_with_tools(agentInput,
                                   use_api, api, dbOk, statsOk, statsAgain))
        /\ UNCHANGED agentInput
        /\ UNCHANGED besidesAgents

\* The answer is shown; the input box is empty again.
NextQuestion ==
    /\ agentPhase = "answered"
    /\ agentPhase' = "idle"
    /\ agentInput' = <<>>
    /\ agentLast' = NoAnswer
    /\ UNCHANGED besidesAgents

AgentNext ==
    \/ TypeInput
    \/ AskDataApp
    \/ AskDemo
    \/ AskAI
    \/ NextQuestion

SpecAgent == IdleInit /\ [][AgentNext]_allVars

\* The decision list of process_query: tests in order, with their handlers.
PQMatches(l) ==
    <<\E k \in 1..3 : contains(l, greeting_words[k]),
      contains(l, WTotal) /\ contains(l, WSales),
      (\E k \in 1..3 : contains(l, best_words[k])) /\ contains(l, WProduct),
      \E k \in 1..3 : contains(l, regional_words[k]),
      \E k \in 1..4 : contains(l, trend_words[k]),
      \E k \in 1..3 : contains(l, summary_words[k]),
      \E k \in 1..5 : contains(l, support_words[k]),
      TRUE>>

PQHandlers ==
    <<"greeting", "total_sales", "best_product", "regional", "trend",
      "get_data_summary", "suggest_support_ticket", "default">>

\* The decision list of get_demo_response.
DemoMatches(l) ==
    <<contains(l, WSales) /\ contains(l, WRegion),
      contains(l, WTop) /\ contains(l, WProduct),
      contains(l, WStat) \/ contains(l, WInsight),
      contains(l, WSupport) \/ contains(l, WTicket),
      contains(l, WHello) \/ contains(l, WHi),
      TRUE>>

DemoHandlers ==
    <<"sales_by_region", "top_products", "get_database_stats", "support",
      "greeting", "default">>

\* The first entry of the list that matches.
FirstMatch(m) == CHOOSE i \in 1..Len(m) : m[i] /\ \A j \in 1..(i - 1) : ~m[j]

\* More than one test of the list matches (the last entry is the default).
SeveralMatch(m) ==
    \E i, j \in 1..(Len(m) - 1) : i < j /\ m[i] /\ m[j]

(***************************************************************************)
(* C16.  Each agent is a decision list: for every input, process_query and *)
(* get_demo_response run exactly one handler, that of the first test in    *)
(* source order that matches, and the default handler only when no test    *)
(* matches.                                                                *)
(***************************************************************************)
C16_FirstMatchWins ==
    /\ agentLast.fn = "process_query" =>
          agentLast.ran =
              <<PQHandlers[FirstMatch(PQMatches(lower(agentInput)))]>>
    /\ agentLast.fn = "get_demo_response" =>
          agentLast.ran =
              <<DemoHandlers[FirstMatch(DemoMatches(lower(agentInput)))]>>

\* process_query answered an input that matches two tests, and ran the
\* handler of the earlier one.
C16_Witness ==
    /\ agentLast.fn = "process_query"
    /\ SeveralMatch(PQMatches(lower(agentInput)))
    /\ Len(agentLast.ran) = 1
    /\ agentLast.ran[1] # "default"

(***************************************************************************)
(* C17.  execute_safe_query and ThreadSafeDatabase.execute_query block     *)
(* every query in whose trimmed, lower-cased text one of drop, delete,     *)
(* truncate, alter, update, insert occurs anywhere, also inside an         *)
(* identifier, and whether or not the text starts with select.             *)
(***************************************************************************)
C17_SubstringBlockedFirst ==
    ( /\ last.fn \in Updated
      /\ \E kw \in ForbiddenKeywords :
            contains(lower(strip(last.query)), kw) ) =>
        /\ last.path = "blocked"
        /\ last.error = DangerousText(last.fn)
        /\ last.handed = <<>>

\* "SELECT updated_at FROM sales": update inside an identifier of a query
\* that starts with select.
C17_Witness ==
    /\ last.fn \in Updated
    /\ last.query = QUpdatedAt
    /\ ForbiddenTokens(last.query) = {}
    /\ startswith(lower(strip(last.query)), select)
    /\ last.path = "blocked"

(***************************************************************************)
(* C18.  The first dashboard's execute_safe_query runs select statements   *)
(* only: a query that is not a select statement gets (None, the safety     *)
(* violation text) and is not run.                                         *)
(***************************************************************************)
C18_DataAppSelectOnly ==
    ( /\ last.fn = "data_app_execute_safe_query"
      /\ FirstToken(last.query) # select ) =>
        /\ last.path = "blocked"
        /\ last.error = SafetyViolationMessage
        /\ last.handed = <<>>

(***************************************************************************)
(* C19.  The three copies of the filter accept the same queries and reject *)
(* the same queries: whichever of them have judged the query under test    *)
(* gave it the same verdict.                                               *)
(***************************************************************************)
C19_SameVerdictInAllCopies ==
    \A f, g \in Functions :
        (firstVerdict[f] # "none" /\ firstVerdict[g] # "none") =>
            firstVerdict[f] = firstVerdict[g]

(***************************************************************************)
(* C20.  get_ai_response_with_tools always falls back to the demo          *)
(* responder instead of failing: without use_api it makes no API call and  *)
(* returns get_demo_response's result; with use_api it returns the API's   *)
(* first choice message only on a 200 with a non-empty choices list, and   *)
(* get_demo_response's result on every other API outcome; no exception     *)
(* escapes.                                                                *)
(***************************************************************************)
C20_AlwaysFallsBack ==
    agentLast.fn = "get_ai_response_with_tools" =>
        /\ agentLast.outcome = "returned"
        /\ ~agentLast.use_api =>
              /\ agentLast.apiCalls = 0
              /\ agentLast.value \in {"content", "None"}
        /\ (agentLast.use_api /\ agentLast.api = "ok") =>
              agentLast.value = "message"
        /\ (agentLast.use_api /\ agentLast.api # "ok") =>
              /\ agentLast.demoCalls >= 1
              /\ agentLast.value \in {"content", "None"}

(***************************************************************************)
(* C21.  get_demo_response returns, for every user query and every         *)
(* database outcome (a failed SQL query of the sales-by-region or          *)
(* top-products handler included), a dictionary with a text under          *)
(* "content".                                                              *)
(***************************************************************************)
C21_DemoAlwaysHasContent ==
    agentLast.fn = "get_demo_response" =>
        /\ agentLast.outcome = "returned"
        /\ agentLast.value = "content"

(***************************************************************************)
(* ThreadSafeDatabase(): __new__ and __init__ statement by statement, by   *)
(* several threads.  The module itself makes the first call                *)
(* (db_instance = ThreadSafeDatabase()) while it is imported; the import   *)
(* lock keeps every other thread out of the module until then.             *)
(***************************************************************************)
\* The thread that imports database.py first.
Importer == CHOOSE t \in Threads : \A u \in Threads : t <= u

\* A slip: the class is reachable before the module-level call has ended.
MayConstruct_early(t) == TRUE

\* Thread t can call the class: it runs the import, or the import is over.
MayConstruct(t) == IF moduleImported THEN TRUE ELSE t = Importer

\* ThreadSafeDatabase() is called: __new__(cls) is entered.
CtorCall(t) ==
    /\ ctorPc[t] = "idle"
    /\ MayConstruct(t)
    /\ moduleImported => constructions < MaxConstructions
    /\ (~moduleImported) => instancesMade = 0
    /\ constructions' = IF moduleImported THEN constructions + 1
                        ELSE constructions
    /\ ctorPc' = [ctorPc EXCEPT ![t] = "new_test"]
    /\ UNCHANGED <<moduleImported, instance, instancesMade, initialized,
                   initRuns, ctorSelf>>
    /\ UNCHANGED besidesSingleton

\* if cls._instance is None:
NewTest(t) ==
    /\ ctorPc[t] = "new_test"
    /\ ctorPc' = [ctorPc EXCEPT ![t] =
                     IF instance = 0 THEN "new_assign" ELSE "new_return"]
    /\ UNCHANGED <<moduleImported, instance, instancesMade, initialized,
                   initRuns, ctorSelf, constructions>>
    /\ UNCHANGED besidesSingleton

\* cls._instance = super().__new__(cls)
NewAssign(t) ==
    /\ ctorPc[t] = "new_assign"
    /\ instancesMade' = instancesMade + 1
    /\ instance' = instancesMade + 1
    /\ ctorPc' = [ctorPc EXCEPT ![t] = "new_return"]
    /\ UNCHANGED <<moduleImported, initialized, initRuns, ctorSelf,
                   constructions>>
    /\ UNCHANGED besidesSingleton

\* return cls._instance; __init__(self) is entered with it.
NewReturn(t) ==
    /\ ctorPc[t] = "new_return"
    /\ ctorSelf' = [ctorSelf EXCEPT ![t] = instance]
    /\ ctorPc' = [ctorPc EXCEPT ![t] = "init_test"]
    /\ UNCHANGED <<moduleImported, instance, instancesMade, initialized,
                   initRuns, constructions>>
    /\ UNCHANGED besidesSingleton

\* if not hasattr(self, 'initialized'):
InitTest(t) ==
    /\ ctorPc[t] = "init_test"
    /\ ctorPc' = [ctorPc EXCEPT ![t] =
                     IF ctorSelf[t] \in initialized THEN "done"
                     ELSE "init_database"]
    /\ UNCHANGED <<moduleImported, instance, instancesMade, initialized,
                   initRuns, ctorSelf, constructions>>
    /\ UNCHANGED besidesSingleton

\* self.db_name = ...; self.thread_local = ...; self._init_database()
InitDatabase(t) ==
    /\ ctorPc[t] = "init_database"
    /\ initRuns' = initRuns + 1
    /\ ctorPc' = [ctorPc EXCEPT ![t] = "init_mark"]
    /\ UNCHANGED <<moduleImported, instance, instancesMade, initialized,
                   ctorSelf, constructions>>
    /\ UNCHANGED besidesSingleton

\* self.initialized = True
InitMark(t) ==
    /\ ctorPc[t] = "init_mark"
    /\ initialized' = initialized \cup {ctorSelf[t]}
    /\ ctorPc' = [ctorPc EXCEPT ![t] = "done"]
    /\ UNCHANGED <<moduleImported, instance, instancesMade, initRuns,
                   ctorSelf, constructions>>
    /\ UNCHANGED besidesSingleton

\* The call returns the object; the module-level call ends the import.
CtorReturn(t) ==
    /\ ctorPc[t] = "done"
    /\ ctorPc' = [ctorPc EXCEPT ![t] = "idle"]
    /\ moduleImported' = TRUE
    /\ UNCHANGED <<instance, instancesMade, initialized, initRuns, ctorSelf,
                   constructions>>
    /\ UNCHANGED besidesSingleton

SingletonNext ==
    \E t \in Threads :
        \/ CtorCall(t)
        \/ NewTest(t)
        \/ NewAssign(t)
        \/ NewReturn(t)
        \/ InitTest(t)
        \/ InitDatabase(t)
        \/ InitMark(t)
        \/ CtorReturn(t)

SpecSingleton == IdleInit /\ [][SingletonNext]_allVars

BodyEnds == {"normal", "Exception", "BaseException"}

\* conn = self.get_connection(); cursor = conn.cursor(); yield cursor,
\* and the with-body, which writes `wrote` statements before it ends.
ScopeBody ==
    \E ends \in BodyEnds, wrote \in {0, 1} :
        /\ scopePc = "outside"
        /\ scopes < MaxScopes
        /\ scopes' = scopes + 1
        /\ scope' = [NoScope EXCEPT !.body = ends, !.wrote = wrote]
        /\ txPending' = txPending + wrote
        /\ scopePc' = IF ends = "normal" THEN "commit"
                      ELSE IF ends = "Exception" THEN "except"
                      ELSE "finally"
        /\ UNCHANGED txCommitted
        /\ UNCHANGED besidesCursor

\* conn.commit(), which may itself raise (an Exception).
ScopeCommit ==
    \E commitOk \in BOOLEAN :
        /\ scopePc = "commit"
        /\ scope' = [scope EXCEPT !.commits = @ + 1]
        /\ IF commitOk
           THEN /\ txCommitted' = txCommitted + txPending
                /\ txPending' = 0
                /\ scopePc' = "finally"
           ELSE /\ scopePc' = "except"
                /\ UNCHANGED <<txCommitted, txPending>>
        /\ UNCHANGED scopes
        /\ UNCHANGED besidesCursor

\* except Exception as e: conn.rollback(); raise e
ScopeExcept ==
    /\ scopePc = "except"
    /\ scope' = [scope EXCEPT !.rollbacks = @ + 1]
    /\ txPending' = 0
    /\ scopePc' = "finally"
    /\ UNCHANGED <<txCommitted, scopes>>
    /\ UNCHANGED besidesCursor

\* finally: cursor.close(); control leaves the context, with the exception
\* that is under way if there is one.
ScopeFinally ==
    /\ scopePc = "finally"
    /\ scope' = [scope EXCEPT
                    !.closes = @ + 1,
                    !.raised = IF scope.body # "normal" THEN scope.body
                               ELSE IF scope.rollbacks > 0 THEN "Exception"
                               ELSE "none"]
    /\ scopePc' = "left"
    /\ UNCHANGED <<txPending, txCommitted, scopes>>
    /\ UNCHANGED besidesCursor

\* The caller goes on (or handles the exception).
ScopeLeft ==
    /\ scopePc = "left"
    /\ scopePc' = "outside"
    /\ UNCHANGED <<scope, txPending, txCommitted, scopes>>
    /\ UNCHANGED besidesCursor

CursorNext ==
    \/ ScopeBody
    \/ ScopeCommit
    \/ ScopeExcept
    \/ ScopeFinally
    \/ ScopeLeft

SpecCursor == IdleInit /\ [][CursorNext]_allVars

(***************************************************************************)
(* C23.  get_cursor scopes a transaction: when the with-body ends normally *)
(* the connection is committed; when it raises, the connection is rolled   *)
(* back and the same exception is re-raised; on both paths the cursor is   *)
(* closed exactly once before control leaves the context.                  *)
(***************************************************************************)
C23_ScopedTransaction ==
    scopePc = "left" =>
        /\ scope.closes = 1
        /\ scope.body = "normal" => scope.commits = 1
        /\ scope.body # "normal" =>
              /\ scope.commits = 0
              /\ scope.rollbacks = 1
              /\ scope.raised = scope.body
              /\ txPending = 0

(***************************************************************************)
(* init_database (app.py) and ThreadSafeDatabase._init_database: the       *)
(* seeding of the sales table, step by step.                               *)
(***************************************************************************)
\* if count < 500:
SeedThreshold == 500

\* generate_sample_data(cursor, 600)
SeedRows == 600

\* The sales rows of the database files found at start: none or a few, and
\* counts on both sides of the threshold.
ExistingRows ==
    (0..MaxOffset)
        \cup {SeedThreshold - k : k \in 1..MaxOffset}
        \cup {SeedThreshold + k : k \in 0..MaxOffset}

\* A slip: the threshold itself counts as too few.
NeedsSeed_inclusive(count) == count <= SeedThreshold

\* if count < 500:
NeedsSeed(count) == count < SeedThreshold

\* sqlite3.connect("business_data.db"): the file as it lies on the disk.
FindDatabaseFile ==
    \E rows \in ExistingRows :
        /\ dbFile = "unopened"
        /\ dbFile' = "open"
        /\ salesRows' = rows
        /\ UNCHANGED <<initPc, initCount, inits, lastInit>>
        /\ UNCHANGED besidesSeed

\* CREATE TABLE IF NOT EXISTS ...; SELECT COUNT(*) FROM sales
InitCountRows ==
    \E fn \in {"init_database", "_init_database"} :
        /\ dbFile = "open"
        /\ initPc = "idle"
        /\ inits < MaxInits
        /\ inits' = inits + 1
        /\ initCount' = salesRows
        /\ lastInit' = [fn |-> fn, before |-> salesRows, inserted |-> 0,
                        nth |-> inits + 1]
        /\ initPc' = "test"
        /\ UNCHANGED <<dbFile, salesRows>>
        /\ UNCHANGED besidesSeed

\* if count < 500: generate_sample_data(cursor, 600), and the commit.
InitSeedIfNeeded ==
    /\ initPc = "test"
    /\ IF NeedsSeed(initCount)
       THEN /\ salesRows' = salesRows + SeedRows
            /\ lastInit' = [lastInit EXCEPT !.inserted = SeedRows]
       ELSE UNCHANGED <<salesRows, lastInit>>
    /\ initPc' = "done"
    /\ UNCHANGED <<dbFile, initCount, inits>>
    /\ UNCHANGED besidesSeed

\* return conn / the with-block is left.
InitReturn ==
    /\ initPc = "done"
    /\ initPc' = "idle"
    /\ UNCHANGED <<dbFile, salesRows, initCount, inits, lastInit>>
    /\ UNCHANGED besidesSeed

SeedNext ==
    \/ FindDatabaseFile
    \/ InitCountRows
    \/ InitSeedIfNeeded
    \/ InitReturn

SpecSeed == IdleInit /\ [][SeedNext]_allVars

(***************************************************************************)
(* C24.  Initialisation seeds only if needed: it inserts 600 sales rows    *)
(* exactly when the table holds fewer than 500 rows and none otherwise;    *)
(* afterwards the table has at least 500 rows, and an initialisation run   *)
(* on the resulting database adds no rows.                                 *)
(***************************************************************************)
C24_SeedsOnlyIfNeeded ==
    initPc = "done" =>
        /\ lastInit.before < 500 => lastInit.inserted = 600
        /\ lastInit.before >= 500 => lastInit.inserted = 0
        /\ salesRows = lastInit.before + lastInit.inserted
        /\ salesRows >= 500
        /\ lastInit.nth > 1 => lastInit.inserted = 0

\* A second initialisation has run on a database the first one seeded,
\* and added nothing.
C24_Witness ==
    /\ initPc = "done"
    /\ lastInit.nth = 2
    /\ lastInit.inserted = 0
    /\ salesRows < 500 + 600
    /\ salesRows >= 600

(***************************************************************************)
(* C25.  Ticket identifiers are unique and creation always succeeds: in    *)
(* every sequence of ticket creations, two within one clock second         *)
(* included, each creation stores a ticket whose id differs from every     *)
(* stored ticket's id; it never ends by an exception.                      *)
(***************************************************************************)
C25_UniqueIdsAlwaysStored ==
    /\ \A i, j \in 1..Len(ticketTable) :
          i # j => ticketTable[i].ticket_id # ticketTable[j].ticket_id
    /\ \A i, j \in 1..Len(ticketFile) :
          i # j => ticketFile[i].id # ticketFile[j].id
    /\ lastFiling.outcome # "raised"

(***************************************************************************)
(* The tool dispatch: AgentTools.execute_tool (agent_tools.py) and         *)
(* execute_tool_call (app.py).                                             *)
(***************************************************************************)
\* The tool names the model of the API can send: the four of the tool
\* list, and one that is none of them.
ToolNames ==
    {"query_database", "get_database_stats", "create_support_ticket",
     "get_schema_info", "delete_everything"}

\* The decoded arguments: all the required keys; a required key missing;
\* a key the function has no parameter for; not a dictionary (null).
ArgumentShapes == {"complete", "missing", "unexpected", "not_a_dict"}

ToolReturned(success, error, dbTouched) ==
    [outcome |-> "returned", success |-> success, error |-> error,
     dbTouched |-> dbTouched]

ToolRaised(exception, dbTouched) ==
    [outcome |-> "raised", success |-> FALSE, error |-> exception,
     dbTouched |-> dbTouched]

\* A method of AgentTools whose whole body is try: ... except Exception:
\* return json.dumps({"success": False, "error": str(e)}).
Guarded(dbOk) ==
    IF dbOk THEN ToolReturned(TRUE, "none", TRUE)
    ELSE ToolReturned(FALSE, "str(e)", TRUE)

\* self.method(**arguments): the call itself, outside the method's try.
\* Python raises TypeError when a required parameter gets no value, when a
\* key names no parameter, and when arguments is not a mapping.
Starred(shape, dbOk) ==
    IF shape = "complete" THEN Guarded(dbOk)
    ELSE ToolRaised("TypeError", FALSE)

\* AgentTools.execute_tool(tool_name, arguments).  dbOk: whether the call
\* on the database manager inside the method returned or raised.
execute_tool(tool_name, shape, dbOk) ==
    IF tool_name = "query_database" THEN Starred(shape, dbOk)
    ELSE IF tool_name = "get_database_stats" THEN Guarded(dbOk)
    ELSE IF tool_name = "create_support_ticket" THEN Starred(shape, dbOk)
    ELSE IF tool_name = "get_schema_info" THEN Guarded(dbOk)
    ELSE ToolReturned(FALSE, "Unknown tool", FALSE)

\* arguments.get(key, default): AttributeError unless arguments is a
\* dictionary; a missing key gives the default, other keys are ignored.
ArgumentsGet(shape, then) ==
    IF shape = "not_a_dict" THEN ToolRaised("AttributeError", FALSE)
    ELSE then

\* execute_tool_call(tool_name, arguments) of app.py.  query is the text
\* under "query" ("" when the key is missing); dbOk: whether the database
\* statement succeeded.  get_database_stats and create_support_ticket have
\* no try/except.
execute_tool_call(tool_name, shape, query, dbOk) ==
    IF tool_name = "query_database"
    THEN ArgumentsGet(shape,
            LET r == execute_safe_query(
                         IF shape = "missing" THEN <<>> ELSE query, dbOk)
            IN  ToolReturned(r.success,
                             IF r.success THEN "none" ELSE r.path,
                             r.handed # <<>>))
    ELSE IF tool_name = "get_database_stats"
    THEN IF dbOk THEN ToolReturned(TRUE, "none", TRUE)
         ELSE ToolRaised("sqlite3.Error", TRUE)
    ELSE IF tool_name = "create_support_ticket"
    THEN ArgumentsGet(shape,
            IF dbOk THEN ToolReturned(TRUE, "none", TRUE)
            ELSE ToolRaised("sqlite3.Error", TRUE))
    ELSE ToolReturned(FALSE, "Unknown tool", FALSE)

Dispatch(fn, tool, shape, r) ==
    /\ toolCalls < MaxToolCalls
    /\ toolCalls' = toolCalls + 1
    /\ toolLast' = [fn |-> fn, tool |-> tool, arguments |-> shape,
                    outcome |-> r.outcome, success |-> r.success,
                    error |-> r.error, dbTouched |-> r.dbTouched]
    /\ UNCHANGED besidesTools

DispatchAgentTools ==
    \E tool \in ToolNames, shape \in ArgumentShapes, dbOk \in BOOLEAN :
        Dispatch("execute_tool", tool, shape, execute_tool(tool, shape, dbOk))

DispatchToolCall ==
    \E tool \in ToolNames, shape \in ArgumentShapes,
       query \in {QSelectAll, QDropTable}, dbOk \in BOOLEAN :
        Dispatch("execute_tool_call", tool, shape,
                 execute_tool_call(tool, shape, query, dbOk))

ToolsNext ==
    \/ DispatchAgentTools
    \/ DispatchToolCall

SpecTools == IdleInit /\ [][ToolsNext]_allVars

(***************************************************************************)
(* C26.  Tool dispatch never raises and reports every failure as a value:  *)
(* a tool name outside the known set gives a result with success false and *)
(* error "Unknown tool" without touching the database, and every failure   *)
(* inside a known tool (blocked query, database error, missing or          *)
(* unexpected arguments) gives a result with success false.                *)
(***************************************************************************)
C26_DispatchNeverRaises ==
    toolLast.fn # "none" =>
        /\ toolLast.outcome = "returned"
        /\ toolLast.tool = "delete_everything" =>
              /\ ~toolLast.success
              /\ toolLast.error = "Unknown tool"
              /\ ~toolLast.dbTouched
        /\ (toolLast.tool \in {"query_database", "create_support_ticket"}
                /\ toolLast.fn = "execute_tool"
                /\ toolLast.arguments # "complete") => ~toolLast.success

(***************************************************************************)
(* The chat histories: main and display_sidebar of the updated dashboard,  *)
(* main of the first dashboard.                                            *)
(***************************************************************************)
UserMessage == [role |-> "user", content |-> "question"]

AssistantMessage == [role |-> "assistant", content |-> "answer"]

\* What the user asks in the chat box.
ChatQuestions == {<<"H", "i">>, <<"i", "n", "s", "i", "g", "h", "t">>}

\* The steps of this part leave the tickets' clock, file, table, counter
\* and record alone unless they say otherwise.
ChatFrame ==
    /\ UNCHANGED <<clock, ticketFile, ticketTable, show_ticket_form,
                   filings, lastFiling>>
    /\ UNCHANGED <<vars, threadVars, connVars, voiceVars, agentVars,
                   singletonVars, cursorVars, seedVars, toolVars>>

\* Updated dashboard, main, the ways a question can end: the response
\* of get_ai_response_with_tools (USE_API = True) has content to show, or
\* the call raises, or returns None so that `"tool_calls" in response`
\* raises TypeError.
HasContent(r) == r.outcome = "returned" /\ r.value # "None"

ChatEndings ==
    {HasContent(get_ai_response_with_tools(input, TRUE, api, dbOk, statsOk,
                                           retry)) :
        input \in ChatQuestions, api \in ApiOutcomes, dbOk \in BOOLEAN,
        statsOk \in BOOLEAN, retry \in BOOLEAN}

\* Updated dashboard, main: if user_input: append the user message, get the
\* response, append the assistant message, rerun.  A run that raises ends
\* after the first append.
ChatInput ==
    \E answered \in ChatEndings :
        /\ Len(messages) < MaxMessages
        /\ messages' =
              IF answered
              THEN messages \o <<UserMessage, AssistantMessage>>
              ELSE Append(messages, UserMessage)
        /\ UNCHANGED dataAppMessages
        /\ ChatFrame

\* Updated dashboard, sidebar: a sample-query button appends the query as
\* a user message and reruns; main answers st.chat_input only.
SampleQueryButton ==
    /\ Len(messages) < MaxMessages
    /\ messages' = Append(messages, UserMessage)
    /\ UNCHANGED dataAppMessages
    /\ ChatFrame

\* Updated dashboard, sidebar: Clear Chat.
ClearChat ==
    /\ messages # <<>>
    /\ messages' = <<>>
    /\ UNCHANGED dataAppMessages
    /\ ChatFrame

\* First dashboard, main: if prompt := st.chat_input(...): append the user
\* message, process_query, append the assistant message; process_query is
\* called outside any try.
DataAppChatInput ==
    \E input \in ChatQuestions, dbOk \in BOOLEAN :
        /\ Len(dataAppMessages) < MaxMessages
        /\ dataAppMessages' =
               IF process_query(input, dbOk).outcome = "returned"
               THEN dataAppMessages \o <<UserMessage, AssistantMessage>>
               ELSE Append(dataAppMessages, UserMessage)
        /\ UNCHANGED messages
        /\ ChatFrame

ChatNext ==
    \/ ChatInput
    \/ SampleQueryButton
    \/ ClearChat
    \/ DataAppChatInput
    \/ OpenTicketForm
    \/ SubmitTicketForm
    \/ CancelTicketForm

SpecChat == IdleInit /\ [][ChatNext]_allVars

\* Every user message of history h has its answer right behind it.
AllAnswered(h) ==
    \A i \in 1..Len(h) :
        h[i].role = "user" =>
            /\ i < Len(h)
            /\ h[i + 1] = [role |-> "assistant", content |-> "answer"]

\* History h went to g by appending: the entries of h are there, in place.
Extended(h, g) == Len(g) >= Len(h) /\ SubSeq(g, 1, Len(h)) = h

(***************************************************************************)
(* C27.  Chat history pairing: over every sequence of UI events (chat      *)
(* input, sample-query button, ticket creation, Clear Chat), once the      *)
(* event is handled every user message in the history has the assistant    *)
(* message that answers it behind it; entries are never changed or         *)
(* reordered; and entries are removed only by emptying the whole history.  *)
(***************************************************************************)
C27_ChatHistoryPaired ==
    /\ [](AllAnswered(messages) /\ AllAnswered(dataAppMessages))
    /\ [][/\ Extended(messages, messages') \/ messages' = <<>>
          /\ Extended(dataAppMessages, dataAppMessages')]_allVars

\* The step is a submit of the ticket form.
FormSubmitted ==
    /\ filings' = filings + 1
    /\ lastFiling'.ui = "form"

(***************************************************************************)
(* C28.  Ticket form of the updated dashboard: show_ticket_form starts     *)
(* false; it becomes true only by the sidebar's Create Support Ticket      *)
(* button, which files nothing; it becomes false only by Cancel or by a    *)
(* submit with title and description both non-empty that stored a ticket;  *)
(* and a submit with an empty title or description stores no ticket, adds  *)
(* no message and leaves show_ticket_form true.                            *)
(***************************************************************************)
C28_TicketFormStateMachine ==
    /\ ~show_ticket_form
    /\ [][/\ (~show_ticket_form /\ show_ticket_form') =>
                UNCHANGED <<ticketFile, ticketTable, messages, filings,
                            lastFiling>>
          /\ (show_ticket_form /\ ~show_ticket_form') =>
                \/ UNCHANGED <<ticketFile, ticketTable, messages, filings,
                               lastFiling>>
                \/ /\ FormSubmitted
                   /\ lastFiling'.title # <<>>
                   /\ lastFiling'.description # <<>>
                   /\ lastFiling'.outcome = "stored"
                   /\ Len(ticketTable') = Len(ticketTable) + 1
          /\ (/\ FormSubmitted
              /\ lastFiling'.title = <<>> \/ lastFiling'.description = <<>>)
                => /\ ticketTable' = ticketTable
                   /\ messages' = messages
                   /\ show_ticket_form
                   /\ show_ticket_form'
         ]_allVars

\* The form was submitted with a title and no description and stayed open
\* with nothing stored.
C28_Witness ==
    /\ show_ticket_form
    /\ lastFiling.ui = "form"
    /\ lastFiling.title # <<>>
    /\ lastFiling.description = <<>>
    /\ lastFiling.outcome = "ignored"
    /\ ticketTable = <<>>
    /\ messages = <<>>

====
